---------------------------- MODULE Spec2Model ----------------------------
(***************************************************************************)
(* Winner detection of the musical-chairs camera pipeline                  *)
(* (src/modelLoader.ts): the retry loop of detectWinner together with the  *)
(* decode, suppression, pixel conversion, matching and cropping it calls.  *)
(* Spec and FairSpec are detectWinner; NMSSpec, DecodeSpec, MatchSpec,     *)
(* OverlapSpec, TensorSpec, CropSpec and IoUSpec apply one function to     *)
(* arguments of its own; GameSpec and GameFairSpec are the game screen     *)
(* (src/app/(tabs)/CameraScreen.tsx).                                      *)
(*                                                                         *)
(* Number representation.  Normalised coordinates, sizes and confidences   *)
(* are carried in hundredths (0.5 is 50, the threshold 0.7 is 70).  Image  *)
(* sizes are such that no coordinate * size falls half way between two     *)
(* pixels, so that Math.round of the product is the same here and in IEEE  *)
(* arithmetic.  Ratios (overlap, IoU) are never divided out: they are      *)
(* compared by cross-multiplication, and a ratio with denominator 0 is     *)
(* NaN, for which every comparison is false.                               *)
(* The camera writes a new file for every capture: the k-th capture        *)
(* request of an invocation produces the handle <<k>>.                     *)
(***************************************************************************)
EXTENDS Integers, Sequences, FiniteSets, Bags, TLC

VARIABLES
    maxRetries,          \* parameter of detectWinner
    pc,                  \* position of the async function detectWinner
    attempt,             \* loop variable of the retry loop (0 before the loop)
    firstCapturedImage,  \* local of detectWinner
    picture,             \* picture.uri of the current attempt, Null if none
    imageSize,           \* <<imageWidth, imageHeight>> of the current attempt
    detectionResults,    \* result of the decode of the current attempt
    best,                \* bestPerson/bestOverlap/bestDistance/bestConfidence
    promise,             \* state of the promise detectWinner returned
    result,              \* the WinnerDetectionResult it resolved with
    captures,            \* history: what each capture request returned
    used,                \* history: image handle every collaborator call was given
    outcomes,            \* history: how each finished attempt ended
    qualified,           \* history: whether each finished attempt had a qualifying pair
    overlaps,            \* history: bestOverlap at the end of each finished attempt
    slept,               \* history: the inter-attempt delay elapsed since the last attempt
    inferences,          \* history: number of session.run calls
    cancelRequested,     \* the user pressed cancel while detection was running
    call,                \* a call of one of the pure functions: arguments and result
    screen               \* the game screen: its React state, refs, timers and async work

vars == <<maxRetries, pc, attempt, firstCapturedImage, picture, imageSize,
          detectionResults, best, promise, result, captures, used, outcomes,
          qualified, overlaps, slept, inferences, cancelRequested, call, screen>>

----------------------------------------------------------------------------
(* Bounds of the model *)

\* largest value of the maxRetries argument that is explored
MaxRetriesBound == 3

\* longest detection list applyNMS is called with on its own
MaxDetections == 4

\* longest lists of persons and of chairs the search for the best person is given on its own
MaxPersons == 3
MaxChairs == 2

\* largest number of non-zero grid cells of a tensor the decoders are called with on their own
MaxCells == 3

----------------------------------------------------------------------------
(* Values *)

\* Image handles are tuples of integers: <<k>> is the photo the k-th capture
\* request produced, <<k, x, y, w, h>> the file a crop of it was written to.
Null == <<>>
EmptyString == <<0>>

\* a || b  of JavaScript on "string | null"
OrElse(a, b) == IF a = Null \/ a = EmptyString THEN b ELSE a

\* Math.round(n / d) for d > 0: round half up
RoundDiv(n, d) == (2 * n + d) \div (2 * d)

Max(a, b) == IF a >= b THEN a ELSE b
Min(a, b) == IF a <= b THEN a ELSE b

BBox(xc, yc, w, h) == [x_center |-> xc, y_center |-> yc, width |-> w, height |-> h]

----------------------------------------------------------------------------
(* Decode: the two processOutputTensor functions and applyNMS *)

\* confidence threshold 0.7, in hundredths
threshold == 70
\* minimum normalised width/height 0.02, in hundredths
minBoxSize == 2
PersonClass == 0
ChairClass == 56
ExpectedFeatures == 84
ExpectedDetections == 8400

\* number of class scores per grid cell (features 4..83)
NumClasses == 80

\* dims[k - 1] of JavaScript; destructuring past the end of the array gives
\* undefined, which is !== every number: it is carried as -1
Dim(dims, k) == IF k <= Len(dims) THEN dims[k] ELSE -1

\* data[idx] of the Float32Array of an output tensor.  The array is carried
\* sparsely, as a function on the indices of its non-zero entries.
Read(data, idx) == IF idx \in DOMAIN data THEN data[idx] ELSE 0

\* variant: the class-score loop replaces the best so far when classScore >=
\* maxClassScore, so the last class that reaches the largest score wins
ArgMax_lastWins(data, numDetections, i) ==
    LET classScore == [classIdx \in 0..(NumClasses - 1) |->
                          Read(data, (4 + classIdx) * numDetections + i)]
        maxClassScore == CHOOSE m \in {classScore[c] : c \in DOMAIN classScore} :
                             \A c \in DOMAIN classScore : classScore[c] <= m
        bestClassId == CHOOSE c \in DOMAIN classScore :
                           /\ classScore[c] = maxClassScore
                           /\ \A d \in (c + 1)..(NumClasses - 1) : classScore[d] < maxClassScore
    IN  <<bestClassId, maxClassScore>>

\* The class-score loop of grid cell i, as the pair <<bestClassId, maxClassScore>>.
\* The loop starts from -Infinity and replaces the best so far only when
\* classScore > maxClassScore, so it ends with the largest of the 80 scores
\* and the first class that reaches it.
ArgMax(data, numDetections, i) ==
    LET classScore == [classIdx \in 0..(NumClasses - 1) |->
                          Read(data, (4 + classIdx) * numDetections + i)]
        maxClassScore == CHOOSE m \in {classScore[c] : c \in DOMAIN classScore} :
                             \A c \in DOMAIN classScore : classScore[c] <= m
        bestClassId == CHOOSE c \in DOMAIN classScore :
                           /\ classScore[c] = maxClassScore
                           /\ \A d \in 0..(c - 1) : classScore[d] < maxClassScore
    IN  <<bestClassId, maxClassScore>>

\* variant: the four numbers of a cell are read as neighbours, data[i * 84 + f]
CellBox_interleaved(data, numDetections, i) ==
    [x_center |-> Read(data, i * ExpectedFeatures + 0),
     y_center |-> Read(data, i * ExpectedFeatures + 1),
     width |-> Read(data, i * ExpectedFeatures + 2),
     height |-> Read(data, i * ExpectedFeatures + 3)]

\* the box of grid cell i, read from the feature planes 0..3
CellBox(data, numDetections, i) ==
    [x_center |-> Read(data, 0 * numDetections + i),
     y_center |-> Read(data, 1 * numDetections + i),
     width |-> Read(data, 2 * numDetections + i),
     height |-> Read(data, 3 * numDetections + i)]

\* a raw detection; its corners are doubled so that width/2 stays an integer
RawDetection(confidence, bbox) ==
    [confidence |-> confidence,
     bbox |-> bbox,
     x1 |-> 2 * bbox.x_center - bbox.width,
     y1 |-> 2 * bbox.y_center - bbox.height,
     x2 |-> 2 * bbox.x_center + bbox.width,
     y2 |-> 2 * bbox.y_center + bbox.height]

\* intersection and union of calculateIoU, as the pair <<intersection, union>>
calculateIoU(box1, box2) ==
    LET x1 == Max(box1.x1, box2.x1)
        y1 == Max(box1.y1, box2.y1)
        x2 == Min(box1.x2, box2.x2)
        y2 == Min(box1.y2, box2.y2)
        intersection == Max(0, x2 - x1) * Max(0, y2 - y1)
        area1 == (box1.x2 - box1.x1) * (box1.y2 - box1.y1)
        area2 == (box2.x2 - box2.x1) * (box2.y2 - box2.y1)
    IN  <<intersection, area1 + area2 - intersection>>

\* variant: the comparison with the threshold is inverted
IoUExceeds_below(iou, iouThreshold) ==
    /\ iou[2] # 0
    /\ 100 * iou[1] < iouThreshold * iou[2]

\* iou > iouThreshold, the threshold in hundredths; 0/0 is NaN and compares
\* false.  The code divides floating-point numbers; the comparison of the exact
\* ratio agrees with it for the boxes that are not DecidedByRounding.
IoUExceeds(iou, iouThreshold) ==
    /\ iou[2] # 0
    /\ 100 * iou[1] > iouThreshold * iou[2]

\* The exact IoU of the two boxes equals the threshold, and the number the
\* code computes for it is rounded: the corners x_center -+ width / 2, the
\* areas and the quotient are floating-point numbers, so the code may find
\* the IoU just above or just below the threshold.  An IoU of 0 of boxes a
\* gap apart and an IoU of 1 of equal boxes are computed exactly.
DecidedByRounding(box1, box2, iouThreshold) ==
    LET iou == calculateIoU(box1, box2)
        touching == \/ Max(box1.x1, box2.x1) = Min(box1.x2, box2.x2)
                    \/ Max(box1.y1, box2.y1) = Min(box1.y2, box2.y2)
    IN  /\ iou[2] # 0
        /\ 100 * iou[1] = iouThreshold * iou[2]
        /\ IF iouThreshold = 0 THEN touching ELSE iouThreshold # 100

\* applyNMS(detections, iouThreshold) compares no IoU that rounding decides
ComparedExactly(detections, iouThreshold) ==
    \A i, j \in 1..Len(detections) :
        ~DecidedByRounding(detections[i], detections[j], iouThreshold)

\* variant: a sort that puts a later detection before earlier ones of equal confidence
RECURSIVE InsertSorted_unstable(_, _)
InsertSorted_unstable(sorted, d) ==
    IF sorted = <<>> THEN <<d>>
    ELSE IF Head(sorted).confidence > d.confidence
         THEN <<Head(sorted)>> \o InsertSorted_unstable(Tail(sorted), d)
         ELSE <<d>> \o sorted

\* detections.sort((a, b) => b.confidence - a.confidence): stable, descending
RECURSIVE InsertSorted(_, _)
InsertSorted(sorted, d) ==
    IF sorted = <<>> THEN <<d>>
    ELSE IF Head(sorted).confidence >= d.confidence
         THEN <<Head(sorted)>> \o InsertSorted(Tail(sorted), d)
         ELSE <<d>> \o sorted

RECURSIVE SortByConfidence(_)
SortByConfidence(detections) ==
    IF detections = <<>> THEN <<>>
    ELSE InsertSorted(SortByConfidence(SubSeq(detections, 1, Len(detections) - 1)),
                      detections[Len(detections)])

\* variant: an accepted detection suppresses only the first later detection it overlaps
RECURSIVE NMSSweep_firstOnly(_, _, _, _)
NMSSweep_firstOnly(detections, i, suppressed, iouThreshold) ==
    IF i > Len(detections) THEN <<>>
    ELSE IF i \in suppressed
         THEN NMSSweep_firstOnly(detections, i + 1, suppressed, iouThreshold)
         ELSE LET over == {j \in (i + 1)..Len(detections) :
                              /\ j \notin suppressed
                              /\ IoUExceeds(calculateIoU(detections[i], detections[j]),
                                            iouThreshold)}
                  newly == {j \in over : \A k \in over : j <= k}
              IN  <<detections[i]>> \o
                  NMSSweep_firstOnly(detections, i + 1, suppressed \cup newly, iouThreshold)

\* variant: the sweep does not skip suppressed detections, which go on to suppress others
RECURSIVE NMSSweep_noSkip(_, _, _, _)
NMSSweep_noSkip(detections, i, suppressed, iouThreshold) ==
    IF i > Len(detections) THEN <<>>
    ELSE LET newly == {j \in (i + 1)..Len(detections) :
                          /\ j \notin suppressed
                          /\ IoUExceeds(calculateIoU(detections[i], detections[j]),
                                        iouThreshold)}
         IN  (IF i \in suppressed THEN <<>> ELSE <<detections[i]>>) \o
             NMSSweep_noSkip(detections, i + 1, suppressed \cup newly, iouThreshold)

\* the greedy sweep of applyNMS from index i on, with the suppressed index set
RECURSIVE NMSSweep(_, _, _, _)
NMSSweep(detections, i, suppressed, iouThreshold) ==
    IF i > Len(detections) THEN <<>>
    ELSE IF i \in suppressed
         THEN NMSSweep(detections, i + 1, suppressed, iouThreshold)
         ELSE LET newly == {j \in (i + 1)..Len(detections) :
                               /\ j \notin suppressed
                               /\ IoUExceeds(calculateIoU(detections[i], detections[j]),
                                             iouThreshold)}
              IN  <<detections[i]>> \o
                  NMSSweep(detections, i + 1, suppressed \cup newly, iouThreshold)

applyNMS(detections, iouThreshold) ==
    IF Len(detections) = 0 THEN <<>>
    ELSE NMSSweep(SortByConfidence(detections), 1, {}, iouThreshold)

\* the test a grid cell passes to become a raw detection of class classId
IsCandidate(top, bbox, classId) ==
    /\ top[1] = classId
    /\ top[2] >= threshold
    /\ bbox.width > minBoxSize
    /\ bbox.height > minBoxSize

\* the grid cells that hold a non-zero entry.  Every other cell has 80 class
\* scores of 0, below the threshold, and the loop passes over it.
TouchedCells(data, numDetections) == {idx % numDetections : idx \in DOMAIN data}

\* the loop over the grid cells, in ascending order of i
RECURSIVE ScanCells(_, _, _, _)
ScanCells(data, numDetections, cellsLeft, classId) ==
    IF cellsLeft = {} THEN <<>>
    ELSE LET i == CHOOSE m \in cellsLeft : \A o \in cellsLeft : m <= o
             top == ArgMax(data, numDetections, i)
             bbox == CellBox(data, numDetections, i)
         IN  (IF IsCandidate(top, bbox, classId)
              THEN <<RawDetection(top[2], bbox)>> ELSE <<>>)
             \o ScanCells(data, numDetections, cellsLeft \ {i}, classId)

\* the raw candidates of one class, in grid-scan order
RawOfClass(outputTensor, classId) ==
    LET numDetections == Dim(outputTensor.dims, 3)
    IN  ScanCells(outputTensor.data, numDetections,
                  TouchedCells(outputTensor.data, numDetections), classId)

StripCorners(dets) ==
    [i \in 1..Len(dets) |-> [confidence |-> dets[i].confidence, bbox |-> dets[i].bbox]]

\* if (features !== 84 || numDetections !== 8400): the batch dimension is not looked at
ShapeMismatch(dims) ==
    \/ Dim(dims, 2) # ExpectedFeatures
    \/ Dim(dims, 3) # ExpectedDetections

\* variant: a cell is a person when its person score reaches the threshold,
\* whatever its other scores
RECURSIVE ScanCells_personScore(_, _, _)
ScanCells_personScore(data, numDetections, cellsLeft) ==
    IF cellsLeft = {} THEN <<>>
    ELSE LET i == CHOOSE m \in cellsLeft : \A o \in cellsLeft : m <= o
             score == Read(data, (4 + PersonClass) * numDetections + i)
             bbox == CellBox(data, numDetections, i)
         IN  (IF IsCandidate(<<PersonClass, score>>, bbox, PersonClass)
              THEN <<RawDetection(score, bbox)>> ELSE <<>>)
             \o ScanCells_personScore(data, numDetections, cellsLeft \ {i})

processOutputTensorToCountPersons_personScore(outputTensor) ==
    IF ShapeMismatch(outputTensor.dims)
    THEN [personCount |-> 0, detections |-> <<>>]
    ELSE LET numDetections == Dim(outputTensor.dims, 3)
             raw == ScanCells_personScore(outputTensor.data, numDetections,
                                          TouchedCells(outputTensor.data, numDetections))
             detections == StripCorners(applyNMS(raw, 50))
         IN  [personCount |-> Len(detections), detections |-> detections]

\* the class-score loop of processOutputTensorToCountPersons from classIdx
\* on, with <<bestClassId, maxClassScore>> so far: a class replaces the best
\* so far when its score is greater
RECURSIVE BestClassFrom(_, _, _, _)
BestClassFrom(data, numDetections, i, state) ==
    LET classIdx == state[1]
        bestSoFar == state[2]
    IN  IF classIdx >= NumClasses THEN bestSoFar
        ELSE LET featureIdx == 4 + classIdx
                 classScore == Read(data, featureIdx * numDetections + i)
             IN  BestClassFrom(data, numDetections, i,
                               <<classIdx + 1,
                                 IF bestSoFar[1] < 0 \/ classScore > bestSoFar[2]
                                 THEN <<classIdx, classScore>> ELSE bestSoFar>>)

\* the first pass of processOutputTensorToCountPersons over the grid cells, in
\* ascending order of i: rawDetections.  bestClassId is -1 as long as
\* maxClassScore is -Infinity, which every score exceeds; the corners are
\* doubled as in RawDetection
RECURSIVE PersonsFirstPass(_, _, _)
PersonsFirstPass(data, numDetections, cellsLeft) ==
    IF cellsLeft = {} THEN <<>>
    ELSE LET i == CHOOSE m \in cellsLeft : \A o \in cellsLeft : m <= o
             x_center == Read(data, 0 * numDetections + i)
             y_center == Read(data, 1 * numDetections + i)
             width == Read(data, 2 * numDetections + i)
             height == Read(data, 3 * numDetections + i)
             top == BestClassFrom(data, numDetections, i, <<0, <<0 - 1, 0>>>>)
             bestClassId == top[1]
             maxClassScore == top[2]
             pushed ==
                 IF bestClassId = 0 /\ maxClassScore >= threshold
                 THEN IF width > minBoxSize /\ height > minBoxSize
                      THEN <<[confidence |-> maxClassScore,
                              bbox |-> [x_center |-> x_center, y_center |-> y_center,
                                        width |-> width, height |-> height],
                              x1 |-> 2 * x_center - width,
                              y1 |-> 2 * y_center - height,
                              x2 |-> 2 * x_center + width,
                              y2 |-> 2 * y_center + height]>>
                      ELSE <<>>
                 ELSE <<>>
         IN  pushed \o PersonsFirstPass(data, numDetections, cellsLeft \ {i})

\* An output tensor is [dims, data].
processOutputTensorToCountPersons(outputTensor) ==
    LET data == outputTensor.data
        features == Dim(outputTensor.dims, 2)
        numDetections == Dim(outputTensor.dims, 3)
    IN  IF features # ExpectedFeatures \/ numDetections # ExpectedDetections
        THEN [personCount |-> 0, detections |-> <<>>]
        ELSE LET rawDetections ==
                     PersonsFirstPass(data, numDetections,
                                      TouchedCells(data, numDetections))
                 nmsFilteredDetections == applyNMS(rawDetections, 50)
                 detections ==
                     [k \in 1..Len(nmsFilteredDetections) |->
                         [confidence |-> nmsFilteredDetections[k].confidence,
                          bbox |-> nmsFilteredDetections[k].bbox]]
             IN  [personCount |-> Len(detections), detections |-> detections]

\* variant: one suppression pass over persons and chairs together
processOutputTensorToCountPersonsAndChairs_jointNMS(outputTensor) ==
    IF ShapeMismatch(outputTensor.dims)
    THEN [personCount |-> 0, chairCount |-> 0, persons |-> <<>>, chairs |-> <<>>]
    ELSE LET rawPersons == RawOfClass(outputTensor, PersonClass)
             rawChairs == RawOfClass(outputTensor, ChairClass)
             kept == applyNMS(rawPersons \o rawChairs, 50)
             IsPerson(d) == \E i \in 1..Len(rawPersons) : rawPersons[i] = d
             IsChair(d) == \E i \in 1..Len(rawChairs) : rawChairs[i] = d
             persons == StripCorners(SelectSeq(kept, IsPerson))
             chairs == StripCorners(SelectSeq(kept, IsChair))
         IN  [personCount |-> Len(persons), chairCount |-> Len(chairs),
              persons |-> persons, chairs |-> chairs]

processOutputTensorToCountPersonsAndChairs(outputTensor) ==
    IF ShapeMismatch(outputTensor.dims)
    THEN [personCount |-> 0, chairCount |-> 0, persons |-> <<>>, chairs |-> <<>>]
    ELSE LET persons == StripCorners(applyNMS(RawOfClass(outputTensor, PersonClass), 50))
             chairs == StripCorners(applyNMS(RawOfClass(outputTensor, ChairClass), 50))
         IN  [personCount |-> Len(persons), chairCount |-> Len(chairs),
              persons |-> persons, chairs |-> chairs]

----------------------------------------------------------------------------
(* Pixel conversion, overlap, distance, crop *)

convertToPixelCoords(bbox, imageWidth, imageHeight) ==
    LET pixelX == RoundDiv(bbox.x_center * imageWidth, 100)
        pixelY == RoundDiv(bbox.y_center * imageHeight, 100)
        pixelWidth == RoundDiv(bbox.width * imageWidth, 100)
        pixelHeight == RoundDiv(bbox.height * imageHeight, 100)
    IN  [x1 |-> RoundDiv(2 * pixelX - pixelWidth, 2),
         y1 |-> RoundDiv(2 * pixelY - pixelHeight, 2),
         x2 |-> RoundDiv(2 * pixelX + pixelWidth, 2),
         y2 |-> RoundDiv(2 * pixelY + pixelHeight, 2),
         pixelX |-> pixelX, pixelY |-> pixelY,
         pixelWidth |-> pixelWidth, pixelHeight |-> pixelHeight]

\* variant: the symmetric measure, intersection / union
calculateOverlap_symmetric(box1, box2) ==
    LET x1 == Max(box1.x1, box2.x1)
        y1 == Max(box1.y1, box2.y1)
        x2 == Min(box1.x2, box2.x2)
        y2 == Min(box1.y2, box2.y2)
        intersection == Max(0, x2 - x1) * Max(0, y2 - y1)
        area1 == (box1.x2 - box1.x1) * (box1.y2 - box1.y1)
        area2 == (box2.x2 - box2.x1) * (box2.y2 - box2.y1)
    IN  <<intersection, area1 + area2 - intersection>>

\* intersection / area1 as the pair <<intersection, area1>>
calculateOverlap(box1, box2) ==
    LET x1 == Max(box1.x1, box2.x1)
        y1 == Max(box1.y1, box2.y1)
        x2 == Min(box1.x2, box2.x2)
        y2 == Min(box1.y2, box2.y2)
        intersection == Max(0, x2 - x1) * Max(0, y2 - y1)
        area1 == (box1.x2 - box1.x1) * (box1.y2 - box1.y1)
    IN  <<intersection, area1>>

\* comparisons of two ratios with denominators >= 0; a ratio n/0 here is 0/0 = NaN
RatioGT(a, b) == a[2] # 0 /\ b[2] # 0 /\ a[1] * b[2] > b[1] * a[2]
RatioEQ(a, b) == a[2] # 0 /\ b[2] # 0 /\ a[1] * b[2] = b[1] * a[2]

\* the square of Math.sqrt(dx * dx + dy * dy), in hundredths squared; the square
\* root is monotone, so distances compare as their squares do
calculateCenterDistance(box1, box2) ==
    LET dx == box1.bbox.x_center - box2.bbox.x_center
        dy == box1.bbox.y_center - box2.bbox.y_center
    IN  dx * dx + dy * dy

\* bestDistance is <<d>> for the finite distance d and starts at Infinity
Infinity == <<>>
DistanceLT(d, bestDistance) == IF bestDistance = Infinity THEN TRUE ELSE d < bestDistance[1]
DistanceEQ(d, bestDistance) == IF bestDistance = Infinity THEN FALSE ELSE d = bestDistance[1]

NoDetection == [confidence |-> 0, bbox |-> BBox(0, 0, 0, 0)]

\* let bestPerson = null; let bestOverlap = 0; let bestDistance = Infinity; let bestConfidence = 0
NoBest == [found |-> FALSE, person |-> NoDetection, overlap |-> <<0, 1>>,
           distance |-> Infinity, confidence |-> 0]

\* variant: on equal overlap the pair with the larger centre distance is preferred
ConsiderPair_fartherFirst(b, person, chair, imageWidth, imageHeight) ==
    LET personPixel == convertToPixelCoords(person.bbox, imageWidth, imageHeight)
        chairPixel == convertToPixelCoords(chair.bbox, imageWidth, imageHeight)
        overlap == calculateOverlap(personPixel, chairPixel)
        distance == calculateCenterDistance(person, chair)
    IN  IF \/ RatioGT(overlap, b.overlap)
           \/ (RatioEQ(overlap, b.overlap) /\ ~DistanceLT(distance, b.distance)
                 /\ ~DistanceEQ(distance, b.distance))
           \/ (RatioEQ(overlap, b.overlap) /\ DistanceEQ(distance, b.distance)
                 /\ person.confidence > b.confidence)
        THEN [found |-> TRUE, person |-> person, overlap |-> overlap,
              distance |-> <<distance>>, confidence |-> person.confidence]
        ELSE b

\* variant: only a strictly higher overlap replaces the best pair
ConsiderPair_overlapOnly(b, person, chair, imageWidth, imageHeight) ==
    LET personPixel == convertToPixelCoords(person.bbox, imageWidth, imageHeight)
        chairPixel == convertToPixelCoords(chair.bbox, imageWidth, imageHeight)
        overlap == calculateOverlap(personPixel, chairPixel)
        distance == calculateCenterDistance(person, chair)
    IN  IF RatioGT(overlap, b.overlap) \/ ~b.found
        THEN [found |-> TRUE, person |-> person, overlap |-> overlap,
              distance |-> <<distance>>, confidence |-> person.confidence]
        ELSE b

\* one iteration of the inner loop of the search for the best person
ConsiderPair(b, person, chair, imageWidth, imageHeight) ==
    LET personPixel == convertToPixelCoords(person.bbox, imageWidth, imageHeight)
        chairPixel == convertToPixelCoords(chair.bbox, imageWidth, imageHeight)
        overlap == calculateOverlap(personPixel, chairPixel)
        distance == calculateCenterDistance(person, chair)
    IN  IF \/ RatioGT(overlap, b.overlap)
           \/ (RatioEQ(overlap, b.overlap) /\ DistanceLT(distance, b.distance))
           \/ (RatioEQ(overlap, b.overlap) /\ DistanceEQ(distance, b.distance)
                 /\ person.confidence > b.confidence)
        THEN [found |-> TRUE, person |-> person, overlap |-> overlap,
              distance |-> <<distance>>, confidence |-> person.confidence]
        ELSE b

\* the nested loops over persons (outer) and chairs (inner), from pair (i, j) on
RECURSIVE FindBestFrom(_, _, _, _, _, _, _)
FindBestFrom(b, persons, chairs, i, j, imageWidth, imageHeight) ==
    IF i > Len(persons) THEN b
    ELSE IF j > Len(chairs)
         THEN FindBestFrom(b, persons, chairs, i + 1, 1, imageWidth, imageHeight)
         ELSE FindBestFrom(ConsiderPair(b, persons[i], chairs[j], imageWidth, imageHeight),
                           persons, chairs, i, j + 1, imageWidth, imageHeight)

FindBestPerson(persons, chairs, imageWidth, imageHeight) ==
    FindBestFrom(NoBest, persons, chairs, 1, 1, imageWidth, imageHeight)

\* variant: an overlap of exactly 0.1 is accepted
HasClearWinner_inclusive(b) ==
    b.found /\ (RatioGT(b.overlap, <<1, 10>>) \/ RatioEQ(b.overlap, <<1, 10>>))

\* bestPerson && bestOverlap > 0.1
HasClearWinner(b) == b.found /\ RatioGT(b.overlap, <<1, 10>>)

\* variant: the padded box as it is, not clamped to the image
CropRect_unclamped(bbox, imageWidth, imageHeight, padding) ==
    LET pixelCoords == convertToPixelCoords(bbox, imageWidth, imageHeight)
        paddingX == RoundDiv(pixelCoords.pixelWidth * padding, 100)
        paddingY == RoundDiv(pixelCoords.pixelHeight * padding, 100)
    IN  <<pixelCoords.x1 - paddingX, pixelCoords.y1 - paddingY,
          pixelCoords.x2 - pixelCoords.x1 + 2 * paddingX,
          pixelCoords.y2 - pixelCoords.y1 + 2 * paddingY>>

\* the rectangle cropImageToBoundingBox asks the manipulator for
CropRect(bbox, imageWidth, imageHeight, padding) ==
    LET pixelCoords == convertToPixelCoords(bbox, imageWidth, imageHeight)
        paddingX == RoundDiv(pixelCoords.pixelWidth * padding, 100)
        paddingY == RoundDiv(pixelCoords.pixelHeight * padding, 100)
        cropX == Max(0, pixelCoords.x1 - paddingX)
        cropY == Max(0, pixelCoords.y1 - paddingY)
        cropWidth == Min(imageWidth - cropX, pixelCoords.x2 - pixelCoords.x1 + 2 * paddingX)
        cropHeight == Min(imageHeight - cropY, pixelCoords.y2 - pixelCoords.y1 + 2 * paddingY)
    IN  <<cropX, cropY, cropWidth, cropHeight>>

\* variant: a failed crop leaves no image
cropImageToBoundingBox_noFallback(imageUri, bbox, imageWidth, imageHeight, padding, manipulatorOk) ==
    IF manipulatorOk
    THEN imageUri \o CropRect(bbox, imageWidth, imageHeight, padding)
    ELSE Null

\* what cropImageToBoundingBox returns: the cropped file, or the original image
\* when the manipulator fails (manipulatorOk = FALSE)
cropImageToBoundingBox(imageUri, bbox, imageWidth, imageHeight, padding, manipulatorOk) ==
    IF manipulatorOk
    THEN imageUri \o CropRect(bbox, imageWidth, imageHeight, padding)
    ELSE imageUri

----------------------------------------------------------------------------
(* The collaborators' answers that are explored *)

\* a grid cell as the model wrote it: its box and its non-zero class scores,
\* a set of <<classIdx, score>> pairs
Cell(classId, score, bbox) == [scores |-> {<<classId, score>>}, bbox |-> bbox]

PersonCell == Cell(PersonClass, 90, BBox(50, 50, 20, 20))
PersonDuplicateCell == Cell(PersonClass, 80, BBox(51, 50, 20, 20))
OtherPersonCell == Cell(PersonClass, 85, BBox(20, 20, 10, 10))
WeakPersonCell == Cell(PersonClass, 60, BBox(50, 50, 20, 20))
TinyPersonCell == Cell(PersonClass, 95, BBox(50, 50, 2, 20))
DogCell == Cell(16, 99, BBox(50, 50, 20, 20))
ChairAroundCell == Cell(ChairClass, 80, BBox(50, 50, 26, 26))
ChairTenthCell == Cell(ChairClass, 80, BBox(68, 50, 20, 20))
ChairAboveTenthCell == Cell(ChairClass, 80, BBox(67, 50, 20, 20))
ChairFarCell == Cell(ChairClass, 75, BBox(90, 90, 10, 10))

\* the entries of the Float32Array that grid cell i contributes when the
\* planes are stride apart: feature f of cell i is written at f * stride + i
CellEntries(cell, i, stride) ==
    { <<0 * stride + i, cell.bbox.x_center>>, <<1 * stride + i, cell.bbox.y_center>>,
      <<2 * stride + i, cell.bbox.width>>, <<3 * stride + i, cell.bbox.height>> }
    \cup { <<(4 + s[1]) * stride + i, s[2]>> : s \in cell.scores }

\* The tensor of shape dims in which the k-th listed cell is grid cell k - 1
\* (of the first batch) and every other entry is 0.  The planes are as long
\* as the last dimension.
Tensor(dims, cells) ==
    LET stride == dims[Len(dims)]
        entries == UNION { CellEntries(cells[k], k - 1, stride) : k \in 1..Len(cells) }
        nonZero == { e \in entries : e[2] # 0 }
    IN  [dims |-> dims,
         data |-> [idx \in { e[1] : e \in nonZero } |->
                      (CHOOSE e \in nonZero : e[1] = idx)[2]]]

ReferenceShape == <<1, ExpectedFeatures, ExpectedDetections>>

\* output tensors session.run may return under "output0"
OutputTensorPool ==
    { Tensor(ReferenceShape, <<>>),
      Tensor(ReferenceShape, <<WeakPersonCell, TinyPersonCell, DogCell, ChairAroundCell>>),
      Tensor(<<1, 80, 100>>, <<PersonCell, ChairAroundCell>>),
      Tensor(ReferenceShape, <<PersonCell, PersonDuplicateCell>>),
      Tensor(ReferenceShape, <<PersonCell, ChairFarCell>>),
      Tensor(ReferenceShape, <<PersonCell, ChairTenthCell>>),
      Tensor(ReferenceShape, <<WeakPersonCell, PersonCell, ChairFarCell, ChairAboveTenthCell>>),
      Tensor(ReferenceShape,
             <<OtherPersonCell, PersonDuplicateCell, PersonCell, ChairAroundCell, DogCell>>) }

\* those of which applyNMS compares the boxes exactly at 0.5
OutputTensors ==
    { outputTensor \in OutputTensorPool :
          /\ ComparedExactly(RawOfClass(outputTensor, PersonClass), 50)
          /\ ComparedExactly(RawOfClass(outputTensor, ChairClass), 50) }

\* what processOutputTensorToCountPersonsAndChairs(output) is for each of them
DecodedOutputs ==
    { processOutputTensorToCountPersonsAndChairs(outputTensor) :
          outputTensor \in OutputTensors }

\* sizes Image.getSize may report
ImageSizes == { <<100, 100>>, <<200, 100>> }

NoDetections == [personCount |-> 0, chairCount |-> 0, persons |-> <<>>, chairs |-> <<>>]
NoSize == <<0, 0>>
\* detectWinner runs; no pure function is called on its own
NoCall == [fn |-> "none"]
Pending == [success |-> FALSE, fullImage |-> Null, attempts |-> 0]

\* the game screen is not mounted
NoScreen == [mounted |-> FALSE]

----------------------------------------------------------------------------
(* detectWinner: the values it computes *)

\* variant: the loop test admits one attempt too many
LoopContinues_offByOne(lastAttempt, retries) == lastAttempt <= retries

\* for (...; attempt <= maxRetries; attempt++), asked of the attempt that just ended
LoopContinues(lastAttempt, retries) == lastAttempt + 1 <= retries

\* if (attempt === 1) firstCapturedImage = picture.uri
StoreFirstCaptured(first, att, uri) == IF att = 1 THEN uri ELSE first

\* variant: the early failure return is not restricted to the last attempt
IsLastAttempt_always(att, retries) == TRUE

\* if (attempt === maxRetries) in the no-persons and no-chairs branches
IsLastAttempt(att, retries) == att = retries

\* the result returned when the last attempt finds no persons or no chairs
NoDetectionResult(first, uri, att) ==
    [success |-> FALSE, fullImage |-> OrElse(first, uri), attempts |-> att]

\* variant: the tensor is built from the remembered first frame
TensorSource_first(first, uri) == OrElse(first, uri)

\* the image the tensor of an attempt is built from: imageToTensor(picture.uri)
TensorSource(first, uri) == uri

\* the image the winner is cropped from: cropImageToBoundingBox(picture.uri, ...)
CropSource(first, uri) == uri

\* variant: success reports the first frame as fullImage, like failure does
SuccessResult_firstFrame(winnerImage, uri, first, b, att) ==
    [success |-> TRUE, winnerImage |-> winnerImage, fullImage |-> OrElse(first, uri),
     confidence |-> b.confidence, attempts |-> att]

\* the result returned on a qualifying match
SuccessResult(winnerImage, uri, first, b, att) ==
    [success |-> TRUE, winnerImage |-> winnerImage, fullImage |-> uri,
     confidence |-> b.confidence, attempts |-> att]

\* if (attempt < maxRetries) await the 1 second timeout
DelayFollows(att, retries) == att < retries

\* variant: the fallback to the empty string is missing
ExhaustedResult_noFallback(first, retries) ==
    [success |-> FALSE, fullImage |-> first, attempts |-> retries]

\* the result returned after the loop
ExhaustedResult(first, retries) ==
    [success |-> FALSE, fullImage |-> OrElse(first, EmptyString), attempts |-> retries]

\* the ways an attempt ends in the catch clause: the capture failed, the size
\* lookup or imageToTensor failed, the inference or the decode of its output failed
Errors == {"captureError", "preprocessError", "inferenceError"}

\* some (person, chair) pair of a frame has overlap > 0.1
ExistsQualifyingPair(dr, size) ==
    \E i \in 1..Len(dr.persons) : \E j \in 1..Len(dr.chairs) :
        RatioGT(calculateOverlap(convertToPixelCoords(dr.persons[i].bbox, size[1], size[2]),
                                 convertToPixelCoords(dr.chairs[j].bbox, size[1], size[2])),
                <<1, 10>>)

----------------------------------------------------------------------------
(* detectWinner: the steps between its awaits *)

Init ==
    /\ maxRetries \in 0..MaxRetriesBound
    /\ pc = "loop"
    /\ attempt = 0
    /\ firstCapturedImage = Null
    /\ picture = Null
    /\ imageSize = NoSize
    /\ detectionResults = NoDetections
    /\ best = NoBest
    /\ promise = "pending"
    /\ result = Pending
    /\ captures = <<>>
    /\ used = {}
    /\ outcomes = <<>>
    /\ qualified = <<>>
    /\ overlaps = <<>>
    /\ slept = FALSE
    /\ inferences = 0
    /\ cancelRequested = FALSE
    /\ call = NoCall
    /\ screen = NoScreen

\* a ratio n/d, d > 0, in lowest terms (the history keeps ratios in this form)
RECURSIVE GCD(_, _)
GCD(a, b) == IF b = 0 THEN a ELSE GCD(b, a % b)
LowestTerms(r) == IF r[2] = 0 THEN r ELSE <<r[1] \div GCD(r[1], r[2]), r[2] \div GCD(r[1], r[2])>>

\* the locals of the loop body go out of scope, and the attempt is recorded
EndAttempt(how, hadQualifyingPair, bestOverlap) ==
    /\ outcomes' = Append(outcomes, how)
    /\ qualified' = Append(qualified, hadQualifyingPair)
    /\ overlaps' = Append(overlaps, LowestTerms(bestOverlap))
    /\ slept' = FALSE
    /\ picture' = Null
    /\ imageSize' = NoSize
    /\ detectionResults' = NoDetections

\* return r
Return(r) ==
    /\ promise' = "fulfilled"
    /\ result' = r
    /\ pc' = "done"

\* continue: straight to the increment and the loop test
Continue ==
    /\ pc' = "loop"
    /\ UNCHANGED <<promise, result>>

\* the end of the loop body after the try statement: the delay, unless last
AfterTry ==
    /\ pc' = IF DelayFollows(attempt, maxRetries) THEN "delay" ELSE "loop"
    /\ UNCHANGED <<promise, result>>

\* an exception escaping detectWinner would reject its promise
Rethrow ==
    /\ promise' = "rejected"
    /\ pc' = "done"
    /\ UNCHANGED result

\* variant: the catch clause lets the exception escape
OnException_rethrow == Rethrow

\* catch (error) { console.error(...) } around the whole loop body
OnException == AfterTry

\* attempt++, attempt <= maxRetries holds, and the body starts by requesting a capture
NextAttempt ==
    /\ pc = "loop"
    /\ LoopContinues(attempt, maxRetries)
    /\ attempt' = attempt + 1
    /\ pc' = "capture"
    /\ UNCHANGED <<call, screen, maxRetries, firstCapturedImage, picture, imageSize, detectionResults,
                   best, promise, result, captures, used, outcomes, qualified, overlaps, slept,
                   inferences, cancelRequested>>

\* attempt <= maxRetries fails: the return after the loop
Exhausted ==
    /\ pc = "loop"
    /\ ~LoopContinues(attempt, maxRetries)
    /\ Return(ExhaustedResult(firstCapturedImage, maxRetries))
    /\ UNCHANGED <<call, screen, maxRetries, attempt, firstCapturedImage, picture, imageSize,
                   detectionResults, best, captures, used, outcomes, qualified, overlaps, slept,
                   inferences, cancelRequested>>

\* takePictureAsync resolves with nothing (or cameraRef.current is null)
CaptureNull ==
    /\ pc = "capture"
    /\ captures' = Append(captures, Null)
    /\ EndAttempt("null", FALSE, NoBest.overlap)
    /\ Continue
    /\ UNCHANGED <<call, screen, maxRetries, attempt, firstCapturedImage, best, used, inferences,
                   cancelRequested>>

\* takePictureAsync rejects
CaptureThrows ==
    /\ pc = "capture"
    /\ captures' = Append(captures, Null)
    /\ EndAttempt("captureError", FALSE, NoBest.overlap)
    /\ OnException
    /\ UNCHANGED <<call, screen, maxRetries, attempt, firstCapturedImage, best, used, inferences,
                   cancelRequested>>

\* takePictureAsync resolves with a new photo; Image.getSize is asked for its size
CaptureImage ==
    /\ pc = "capture"
    /\ LET uri == <<Len(captures) + 1>>
       IN  /\ captures' = Append(captures, uri)
           /\ firstCapturedImage' = StoreFirstCaptured(firstCapturedImage, attempt, uri)
           /\ picture' = uri
           /\ used' = used \cup {<<attempt, "getSize", uri>>}
    /\ pc' = "getSize"
    /\ UNCHANGED <<call, screen, maxRetries, attempt, imageSize, detectionResults, best, promise, result,
                   outcomes, qualified, overlaps, slept, inferences, cancelRequested>>

\* Image.getSize succeeds; imageToTensor(picture.uri) is called
GetSizeResolves ==
    /\ pc = "getSize"
    /\ \E size \in ImageSizes : imageSize' = size
    /\ used' = used \cup {<<attempt, "imageToTensor", TensorSource(firstCapturedImage, picture)>>}
    /\ pc' = "imageToTensor"
    /\ UNCHANGED <<call, screen, maxRetries, attempt, firstCapturedImage, picture, detectionResults, best,
                   promise, result, captures, outcomes, qualified, overlaps, slept, inferences,
                   cancelRequested>>

GetSizeRejects ==
    /\ pc = "getSize"
    /\ EndAttempt("preprocessError", FALSE, NoBest.overlap)
    /\ OnException
    /\ UNCHANGED <<call, screen, maxRetries, attempt, firstCapturedImage, best, captures, used,
                   inferences, cancelRequested>>

\* imageToTensor resolves; session.run(feeds) is called
ImageToTensorResolves ==
    /\ pc = "imageToTensor"
    /\ inferences' = inferences + 1
    /\ pc' = "run"
    /\ UNCHANGED <<call, screen, maxRetries, attempt, firstCapturedImage, picture, imageSize,
                   detectionResults, best, promise, result, captures, used, outcomes,
                   qualified, overlaps, slept, cancelRequested>>

\* imageToTensor throws (size lookup, resize, missing base64 or jpeg decode failed)
ImageToTensorThrows ==
    /\ pc = "imageToTensor"
    /\ EndAttempt("preprocessError", FALSE, NoBest.overlap)
    /\ OnException
    /\ UNCHANGED <<call, screen, maxRetries, attempt, firstCapturedImage, best, captures, used,
                   inferences, cancelRequested>>

\* session.run rejects
RunRejects ==
    /\ pc = "run"
    /\ EndAttempt("inferenceError", FALSE, NoBest.overlap)
    /\ OnException
    /\ UNCHANGED <<call, screen, maxRetries, attempt, firstCapturedImage, best, captures, used,
                   inferences, cancelRequested>>

\* session.run resolves without "output0": throw new Error("No output tensor ...")
RunWithoutOutput ==
    /\ pc = "run"
    /\ EndAttempt("inferenceError", FALSE, NoBest.overlap)
    /\ OnException
    /\ UNCHANGED <<call, screen, maxRetries, attempt, firstCapturedImage, best, captures, used,
                   inferences, cancelRequested>>

\* "output0" is not a tensor (no dims): the decode throws
DecodeThrows ==
    /\ pc = "run"
    /\ EndAttempt("inferenceError", FALSE, NoBest.overlap)
    /\ OnException
    /\ UNCHANGED <<call, screen, maxRetries, attempt, firstCapturedImage, best, captures, used,
                   inferences, cancelRequested>>

\* session.run resolves with a tensor whose decode has no persons or no chairs
RunResolvesWithoutPair ==
    /\ pc = "run"
    /\ \E dr \in DecodedOutputs :
         /\ dr.personCount = 0 \/ dr.chairCount = 0
         /\ EndAttempt(IF dr.personCount = 0 THEN "noPersons" ELSE "noChairs",
                       ExistsQualifyingPair(dr, imageSize), NoBest.overlap)
    /\ IF IsLastAttempt(attempt, maxRetries)
       THEN Return(NoDetectionResult(firstCapturedImage, picture, attempt))
       ELSE Continue
    /\ UNCHANGED <<call, screen, maxRetries, attempt, firstCapturedImage, best, captures, used,
                   inferences, cancelRequested>>

\* session.run resolves with persons and chairs, none of which is a clear winner
RunResolvesNoWinner ==
    /\ pc = "run"
    /\ \E dr \in DecodedOutputs :
         LET b == FindBestPerson(dr.persons, dr.chairs, imageSize[1], imageSize[2])
         IN  /\ dr.personCount # 0 /\ dr.chairCount # 0
             /\ ~HasClearWinner(b)
             /\ EndAttempt("noMatch", ExistsQualifyingPair(dr, imageSize), b.overlap)
    /\ AfterTry
    /\ UNCHANGED <<call, screen, maxRetries, attempt, firstCapturedImage, best, captures, used,
                   inferences, cancelRequested>>

\* session.run resolves with a clear winner; the crop of the winner is requested
RunResolvesWinner ==
    /\ pc = "run"
    /\ \E dr \in DecodedOutputs :
         LET b == FindBestPerson(dr.persons, dr.chairs, imageSize[1], imageSize[2])
         IN  /\ dr.personCount # 0 /\ dr.chairCount # 0
             /\ HasClearWinner(b)
             /\ detectionResults' = dr
             /\ best' = b
    /\ used' = used \cup {<<attempt, "crop", CropSource(firstCapturedImage, picture)>>}
    /\ pc' = "crop"
    /\ UNCHANGED <<call, screen, maxRetries, attempt, firstCapturedImage, picture, imageSize, promise,
                   result, captures, outcomes, qualified, overlaps, slept, inferences,
                   cancelRequested>>

\* cropImageToBoundingBox returns (the crop, or the image itself if the crop failed)
CropReturns ==
    /\ pc = "crop"
    /\ \E manipulatorOk \in BOOLEAN :
         Return(SuccessResult(
                  cropImageToBoundingBox(CropSource(firstCapturedImage, picture),
                                         best.person.bbox, imageSize[1], imageSize[2],
                                         20, manipulatorOk),
                  picture, firstCapturedImage, best, attempt))
    /\ outcomes' = Append(outcomes, "match")
    /\ qualified' = Append(qualified, ExistsQualifyingPair(detectionResults, imageSize))
    /\ overlaps' = Append(overlaps, LowestTerms(best.overlap))
    /\ UNCHANGED <<call, screen, maxRetries, attempt, firstCapturedImage, picture, imageSize,
                   detectionResults, best, captures, used, slept, inferences,
                   cancelRequested>>

\* the 1 second timeout fires
DelayElapses ==
    /\ pc = "delay"
    /\ slept' = TRUE
    /\ pc' = "loop"
    /\ UNCHANGED <<call, screen, maxRetries, attempt, firstCapturedImage, picture, imageSize,
                   detectionResults, best, promise, result, captures, used, outcomes,
                   qualified, overlaps, inferences, cancelRequested>>

\* where detectWinner is suspended in an await, so that other handlers can run
AwaitPoints == {"capture", "getSize", "imageToTensor", "run", "crop", "delay"}

\* the user presses the start/cancel button while the winner is being detected
Cancel ==
    /\ pc \in AwaitPoints
    /\ ~cancelRequested
    /\ cancelRequested' = TRUE
    /\ UNCHANGED <<call, screen, maxRetries, pc, attempt, firstCapturedImage, picture, imageSize,
                   detectionResults, best, promise, result, captures, used, outcomes,
                   qualified, overlaps, slept, inferences>>

\* the steps of detectWinner itself
Step ==
    \/ NextAttempt
    \/ Exhausted
    \/ CaptureNull
    \/ CaptureThrows
    \/ CaptureImage
    \/ GetSizeResolves
    \/ GetSizeRejects
    \/ ImageToTensorResolves
    \/ ImageToTensorThrows
    \/ RunRejects
    \/ RunWithoutOutput
    \/ DecodeThrows
    \/ RunResolvesWithoutPair
    \/ RunResolvesNoWinner
    \/ RunResolvesWinner
    \/ CropReturns
    \/ DelayElapses

Next == Step \/ Cancel

Spec == Init /\ [][Next]_vars

\* every collaborator call returns or fails and every timer fires
FairSpec == Spec /\ WF_vars(Step)

----------------------------------------------------------------------------
(* Properties of detectWinner *)

Returned == promise = "fulfilled"

Indices(seq) == 1..Len(seq)

\* capture requests issued so far: the answered ones and the pending one
CaptureRequests == Len(captures) + (IF pc = "capture" THEN 1 ELSE 0)

\* the first image captured during the invocation
FirstCaptured ==
    captures[CHOOSE k \in Indices(captures) :
                 /\ captures[k] # Null
                 /\ \A j \in 1..(k - 1) : captures[j] = Null]

\* C1: every result returned with success = false has attempts = maxRetries and
\* carries neither winnerImage nor confidence, on every failure path.
C1_FailureReportsMaxRetries ==
    (Returned /\ ~result.success) =>
        /\ result.attempts = maxRetries
        /\ DOMAIN result = {"success", "fullImage", "attempts"}

\* a failure returned early, from the no-chairs branch of the last of three attempts
C1_Witness ==
    /\ Returned /\ ~result.success
    /\ maxRetries = 3
    /\ outcomes[1] \in Errors
    /\ outcomes[3] = "noChairs"

\* C2: whenever detectWinner returns success = false and some capture of the
\* invocation returned an image, fullImage is the first image captured, never a
\* later attempt's image and never the empty string.
C2_FailureReturnsFirstCaptured ==
    (Returned /\ ~result.success /\ \E k \in Indices(captures) : captures[k] # Null) =>
        result.fullImage = FirstCaptured

\* C3 as stated: a match in attempt k returns success = true, attempts = k,
\* fullImage = the image of attempt k, the selected person's confidence, and
\* winnerImage = the crop of attempt k's image around that person's box.
C3_SuccessReturnsCrop ==
    (Returned /\ result.success) =>
        LET k == Len(outcomes)
        IN  /\ result.attempts = k /\ 1 <= k /\ k <= maxRetries
            /\ result.fullImage = captures[k]
            /\ result.confidence = best.person.confidence
            /\ result.winnerImage =
                 captures[k] \o CropRect(best.person.bbox, imageSize[1], imageSize[2], 20)

\* C3 amended: as above, but winnerImage is the crop of attempt k's image around
\* the selected person's box or, when cropping fails, attempt k's image itself.
C3_SuccessReturnsCropOrImage ==
    (Returned /\ result.success) =>
        LET k == Len(outcomes)
        IN  /\ result.attempts = k /\ 1 <= k /\ k <= maxRetries
            /\ result.fullImage = captures[k]
            /\ result.confidence = best.person.confidence
            /\ result.winnerImage \in
                 { captures[k] \o CropRect(best.person.bbox, imageSize[1], imageSize[2], 20),
                   captures[k] }

\* a match in the second attempt, after a first attempt that captured an image
C3_Witness ==
    /\ Returned /\ result.success
    /\ Len(outcomes) = 2
    /\ captures[1] # Null
    /\ firstCapturedImage = captures[1]
    /\ result.fullImage = captures[2]
    /\ Len(result.winnerImage) = 5

\* C4: success is returned if and only if some attempt captured an image, ran
\* inference without error, found persons and chairs and had a pair with overlap
\* strictly above 0.1; the result comes from the earliest such attempt, and no
\* capture is requested after it.
C4_SuccessIffQualifyingAttempt ==
    /\ (\E k \in Indices(qualified) : qualified[k]) => (Returned /\ result.success)
    /\ Returned =>
         /\ result.success <=> \E k \in Indices(qualified) : qualified[k]
         /\ result.success =>
              /\ qualified[result.attempts]
              /\ \A j \in 1..(result.attempts - 1) : ~qualified[j]
              /\ CaptureRequests = result.attempts

\* success in the third attempt, after an attempt whose best overlap was exactly 0.1
C4_Witness ==
    /\ Returned /\ result.success
    /\ result.attempts = 3
    /\ outcomes[1] = "noMatch"
    /\ RatioEQ(overlaps[1], <<1, 10>>)
    /\ outcomes[2] = "noPersons"

\* C5: detectWinner never rejects; a failure of capture, size lookup,
\* preprocessing, inference or decoding in attempt k ends attempt k only: a
\* later attempt runs when k < maxRetries, and on the last attempt the
\* structured failure result is returned.
C5_ExceptionsAreSoftFailures ==
    /\ promise # "rejected"
    /\ pc = "done" =>
         /\ Returned
         /\ \A k \in Indices(outcomes) :
              outcomes[k] \in Errors =>
                /\ k < maxRetries => Len(outcomes) > k
                /\ k = maxRetries =>
                     result = [success |-> FALSE,
                               fullImage |-> OrElse(firstCapturedImage, EmptyString),
                               attempts |-> maxRetries]

\* three attempts that failed in inference, in preprocessing and in the capture
C5_Witness ==
    /\ Returned
    /\ outcomes = <<"inferenceError", "preprocessError", "captureError">>

\* C6: with a camera whose capture always returns null, exactly maxRetries
\* captures are requested, no inference runs, and the result is success = false,
\* fullImage = "", attempts = maxRetries.
C6_NullCamera ==
    (Returned /\ \A k \in Indices(outcomes) : outcomes[k] = "null") =>
        /\ CaptureRequests = maxRetries
        /\ \A k \in Indices(captures) : captures[k] = Null
        /\ inferences = 0
        /\ result = [success |-> FALSE, fullImage |-> EmptyString, attempts |-> maxRetries]

\* three null captures
C6_Witness ==
    /\ Returned
    /\ maxRetries = 3
    /\ outcomes = <<"null", "null", "null">>

\* C7: at most maxRetries attempts are made, the attempt counter only increases
\* and never exceeds maxRetries, and, every collaborator call returning or
\* failing, detectWinner eventually returns.
C7_BoundedAndTerminates ==
    /\ [](attempt <= maxRetries /\ CaptureRequests <= maxRetries)
    /\ [][attempt' >= attempt]_vars
    /\ <>(pc = "done" /\ Returned)

\* a run that used all three attempts
C7_Witness ==
    /\ pc = "done"
    /\ maxRetries = 3
    /\ attempt = 3
    /\ Len(outcomes) = 3

\* C8: every attempt issues exactly one capture request; size lookup,
\* preprocessing and cropping of attempt k are given the image captured in
\* attempt k; a capture is requested only when every earlier attempt has ended.
C8_FreshFramePerAttempt ==
    /\ CaptureRequests = attempt
    /\ \A u \in used : u[1] \in Indices(captures) /\ u[3] = captures[u[1]] /\ u[3] = <<u[1]>>
    /\ picture # Null => picture = captures[attempt]
    /\ Len(outcomes) \in {attempt - 1, attempt}
    /\ pc = "capture" => Len(outcomes) = attempt - 1
    /\ pc \in {"loop", "delay", "done"} => Len(outcomes) = attempt

\* the winner of attempt 2 is cropped while the frame of attempt 1 is remembered
C8_Witness ==
    /\ pc = "crop"
    /\ attempt = 2
    /\ firstCapturedImage = <<1>>
    /\ <<2, "imageToTensor", <<2>>>> \in used
    /\ <<2, "crop", <<2>>>> \in used

\* C9: after every soft failure that is not the last allowed attempt, the
\* 1-second delay elapses before the next capture is requested; no delay follows
\* the last attempt.
C9_DelayBeforeEveryRetry ==
    /\ (pc = "capture" /\ attempt > 1) => slept
    /\ pc = "delay" => attempt < maxRetries

\* C10: once cancellation has been signalled, no further capture is requested.
C10_CancelStopsCaptures ==
    [][cancelRequested => CaptureRequests' = CaptureRequests]_vars


----------------------------------------------------------------------------
(* applyNMS called on its own *)

DetectWinnerVars ==
    <<maxRetries, pc, attempt, firstCapturedImage, picture, imageSize,
      detectionResults, best, promise, result, captures, used, outcomes,
      qualified, overlaps, slept, inferences, cancelRequested>>

\* detectWinner has not been called
NotRunning ==
    /\ maxRetries = 0
    /\ pc = "loop"
    /\ attempt = 0
    /\ firstCapturedImage = Null
    /\ picture = Null
    /\ imageSize = NoSize
    /\ detectionResults = NoDetections
    /\ best = NoBest
    /\ promise = "pending"
    /\ result = Pending
    /\ captures = <<>>
    /\ used = {}
    /\ outcomes = <<>>
    /\ qualified = <<>>
    /\ overlaps = <<>>
    /\ slept = FALSE
    /\ inferences = 0
    /\ cancelRequested = FALSE

\* Detections applyNMS is given.  Middle and Shifted have IoU 0.6.  Top
\* overlaps Middle (IoU 17/23) more than it overlaps Left and Right, which
\* overlap Middle (IoU 18/22) more than each other (IoU 16/24).  Twin has the
\* confidence of Middle, Shifted that of Right.
NmsTop == RawDetection(95, BBox(50, 53, 20, 20))
NmsMiddle == RawDetection(90, BBox(50, 50, 20, 20))
NmsTwin == RawDetection(90, BBox(51, 50, 20, 20))
NmsLeft == RawDetection(85, BBox(48, 50, 20, 20))
NmsRight == RawDetection(80, BBox(52, 50, 20, 20))
NmsShifted == RawDetection(80, BBox(55, 50, 20, 20))

NmsPool == {NmsTop, NmsMiddle, NmsTwin, NmsLeft, NmsRight, NmsShifted}

DetectionLists == UNION { [1..n -> NmsPool] : n \in 0..MaxDetections }

\* IoU thresholds, in hundredths
IouThresholds == {0, 50, 70, 75, 100}

NMSInit ==
    /\ NotRunning
    /\ screen = NoScreen
    /\ \E detections \in DetectionLists : \E iouThreshold \in IouThresholds :
         /\ ComparedExactly(detections, iouThreshold)
         /\ call = [fn |-> "applyNMS", detections |-> detections,
                    iouThreshold |-> iouThreshold, runs |-> 0, out |-> <<>>, again |-> <<>>]

\* out = applyNMS(detections, iouThreshold)
ApplyNMS ==
    /\ call.fn = "applyNMS"
    /\ call.runs = 0
    /\ call' = [call EXCEPT !.runs = 1,
                            !.out = applyNMS(call.detections, call.iouThreshold)]
    /\ UNCHANGED <<DetectWinnerVars, screen>>

\* again = applyNMS(out, iouThreshold)
ApplyNMSAgain ==
    /\ call.fn = "applyNMS"
    /\ call.runs = 1
    /\ call' = [call EXCEPT !.runs = 2,
                            !.again = applyNMS(call.out, call.iouThreshold)]
    /\ UNCHANGED <<DetectWinnerVars, screen>>

NMSNext == ApplyNMS \/ ApplyNMSAgain

NMSSpec == NMSInit /\ [][NMSNext]_vars

NMSApplied == call.fn = "applyNMS" /\ call.runs >= 1

\* number of occurrences of d in seq
Count(seq, d) == Cardinality({i \in 1..Len(seq) : seq[i] = d})

Range(seq) == {seq[i] : i \in 1..Len(seq)}

\* C11: applying applyNMS to its own output with the same threshold returns
\* that output, the same detections in the same order.
C11_Idempotent ==
    (call.fn = "applyNMS" /\ call.runs = 2) => call.again = call.out

\* the second application has run on an output that lost detections and kept several
C11_Witness ==
    /\ call.fn = "applyNMS" /\ call.runs = 2
    /\ Len(call.detections) = 4
    /\ Len(call.out) = 2
    /\ call.out # SubSeq(call.detections, 1, 2)

\* C12 (as claimed): for thresholds t1 <= t2, applyNMS retains at t2 at least
\* as many detections of a list as it retains at t1.
C12_Monotone ==
    NMSApplied =>
        \A t2 \in IouThresholds :
            t2 >= call.iouThreshold =>
                Len(applyNMS(call.detections, t2)) >= Len(call.out)

\* C12 (amended): for a list of at most three detections and thresholds
\* t1 <= t2, applyNMS retains at t2 at least as many detections as at t1.
C12_MonotoneUpToThree ==
    (NMSApplied /\ Len(call.detections) <= 3) =>
        \A t2 \in IouThresholds :
            t2 >= call.iouThreshold =>
                Len(applyNMS(call.detections, t2)) >= Len(call.out)

\* three detections of which a higher threshold retains strictly more
C12_Witness ==
    /\ NMSApplied
    /\ Len(call.detections) = 3
    /\ Len(call.out) = 2
    /\ \E t2 \in IouThresholds :
         t2 > call.iouThreshold /\ Len(applyNMS(call.detections, t2)) = 3

\* C13: in the output of applyNMS (a) no two retained detections have IoU
\* above the threshold, (b) every dropped detection has IoU above the
\* threshold with a retained detection of at least its confidence, (c) a
\* detection of the highest confidence is retained when the input is not
\* empty; and of two boxes with IoU 0.6 and confidences 0.9 and 0.8 only the
\* 0.9 box is returned at threshold 0.5.
C13_GreedySuppression ==
    NMSApplied =>
        /\ \A i, j \in 1..Len(call.out) :
               i < j => ~IoUExceeds(calculateIoU(call.out[i], call.out[j]),
                                    call.iouThreshold)
        /\ \A d \in Range(call.detections) :
               Count(call.out, d) < Count(call.detections, d) =>
                   \E r \in Range(call.out) :
                       /\ IoUExceeds(calculateIoU(r, d), call.iouThreshold)
                       /\ r.confidence >= d.confidence
        /\ call.detections # <<>> =>
               \E r \in Range(call.out) :
                   \A d \in Range(call.detections) : r.confidence >= d.confidence
        /\ (/\ call.detections \in {<<NmsMiddle, NmsShifted>>, <<NmsShifted, NmsMiddle>>}
            /\ call.iouThreshold = 50)
           => call.out = <<NmsMiddle>>

\* the two boxes of IoU 0.6 (confidences 0.9 and 0.8) have been through
\* applyNMS at 0.5, the weaker one given first
C13_Witness ==
    /\ NMSApplied
    /\ call.detections = <<NmsShifted, NmsMiddle>>
    /\ calculateIoU(NmsMiddle, NmsShifted)[1] * 10 = calculateIoU(NmsMiddle, NmsShifted)[2] * 6
    /\ call.iouThreshold = 50
    /\ Len(call.out) = 1

\* the detections of seq that have confidence c, in their order in seq
RECURSIVE OfConfidence(_, _)
OfConfidence(seq, c) ==
    IF seq = <<>> THEN <<>>
    ELSE (IF Head(seq).confidence = c THEN <<Head(seq)>> ELSE <<>>)
         \o OfConfidence(Tail(seq), c)

\* a can be obtained from b by deleting elements
RECURSIVE IsSubsequence(_, _)
IsSubsequence(a, b) ==
    IF a = <<>> THEN TRUE
    ELSE IF b = <<>> THEN FALSE
    ELSE IF Head(a) = Head(b) THEN IsSubsequence(Tail(a), Tail(b))
    ELSE IsSubsequence(a, Tail(b))

\* C14: applyNMS returns detections of its input (none more often than the
\* input holds it) in order of non-increasing confidence; detections of
\* equal confidence keep their relative input order, so of two overlapping
\* boxes of equal confidence the earlier one is retained; an empty input
\* gives an empty output.
C14_SortedStableSublist ==
    NMSApplied =>
        /\ \A d \in Range(call.out) : Count(call.out, d) <= Count(call.detections, d)
        /\ \A i, j \in 1..Len(call.out) :
               i < j => call.out[i].confidence >= call.out[j].confidence
        /\ \A d \in Range(call.out) :
               IsSubsequence(OfConfidence(call.out, d.confidence),
                             OfConfidence(call.detections, d.confidence))
        /\ (/\ Len(call.detections) = 2
            /\ call.detections[1].confidence = call.detections[2].confidence
            /\ IoUExceeds(calculateIoU(call.detections[1], call.detections[2]),
                          call.iouThreshold))
           => call.out = <<call.detections[1]>>
        /\ call.detections = <<>> => call.out = <<>>

\* an unsorted input with two different boxes of equal confidence, both retained
C14_Witness ==
    /\ NMSApplied
    /\ Len(call.detections) = 4
    /\ call.detections[1].confidence < call.detections[4].confidence
    /\ \E i, j \in 1..Len(call.out) :
         /\ i < j
         /\ call.out[i].confidence = call.out[j].confidence
         /\ call.out[i] # call.out[j]

----------------------------------------------------------------------------
(* The two decoders called on their own *)

\* a grid cell with two non-zero class scores
Cell2(classId, score, otherId, otherScore, bbox) ==
    [scores |-> {<<classId, score>>, <<otherId, otherScore>>}, bbox |-> bbox]

\* a chair on the box of PersonCell
ChairOnPersonCell == Cell(ChairClass, 80, BBox(50, 50, 20, 20))
\* scores next to the threshold.  (The data is a Float32Array and 0.7 is not a
\* float32 value: no score read from it equals the threshold.)
BarelyPersonCell == Cell(PersonClass, 71, BBox(20, 20, 10, 10))
BelowThresholdChairCell == Cell(ChairClass, 69, BBox(20, 20, 10, 10))
\* a height of exactly 0.02, and a box just above the minimum size
FlatChairCell == Cell(ChairClass, 90, BBox(80, 80, 20, 2))
SmallPersonCell == Cell(PersonClass, 75, BBox(80, 20, 3, 3))
\* a person score beaten by another class, and one that ties with the chair score
PersonOrDogCell == Cell2(PersonClass, 80, 16, 90, BBox(20, 80, 10, 10))
PersonChairTieCell == Cell2(PersonClass, 85, ChairClass, 85, BBox(21, 80, 10, 10))

DecodeCells ==
    {PersonCell, ChairOnPersonCell, BarelyPersonCell, BelowThresholdChairCell,
     FlatChairCell, SmallPersonCell, PersonOrDogCell, PersonChairTieCell}

\* lists of grid cells whose boxes applyNMS compares exactly at 0.5
CellLists ==
    { cells \in UNION { [1..n -> DecodeCells] : n \in 0..MaxCells } :
          ComparedExactly([i \in 1..Len(cells) |-> RawDetection(0, cells[i].bbox)], 50) }

\* shapes of the tensors the decoders are given
DecodeShapes ==
    {ReferenceShape, <<1, 80, 100>>, <<2, ExpectedFeatures, ExpectedDetections>>,
     <<ExpectedFeatures, ExpectedDetections>>}

NoPersons == [personCount |-> 0, detections |-> <<>>]

DecodeInit ==
    /\ NotRunning
    /\ screen = NoScreen
    /\ \E dims \in DecodeShapes : \E cells \in CellLists :
         call = [fn |-> "decode", dims |-> dims, cells |-> cells,
                 personsDone |-> FALSE, persons |-> NoPersons,
                 bothDone |-> FALSE, both |-> NoDetections,
                 rawPersons |-> <<>>, rawChairs |-> <<>>]

\* persons = processOutputTensorToCountPersons(outputTensor)
DecodePersons ==
    /\ call.fn = "decode"
    /\ ~call.personsDone
    /\ call' = [call EXCEPT
                  !.personsDone = TRUE,
                  !.persons = processOutputTensorToCountPersons(Tensor(call.dims, call.cells))]
    /\ UNCHANGED <<DetectWinnerVars, screen>>

\* both = processOutputTensorToCountPersonsAndChairs(outputTensor); rawPersons
\* and rawChairs are its locals at the end of the first pass
DecodePersonsAndChairs ==
    /\ call.fn = "decode"
    /\ ~call.bothDone
    /\ LET outputTensor == Tensor(call.dims, call.cells)
           guarded == ShapeMismatch(outputTensor.dims)
       IN  call' = [call EXCEPT
                      !.bothDone = TRUE,
                      !.both = processOutputTensorToCountPersonsAndChairs(outputTensor),
                      !.rawPersons = IF guarded THEN <<>>
                                     ELSE RawOfClass(outputTensor, PersonClass),
                      !.rawChairs = IF guarded THEN <<>>
                                    ELSE RawOfClass(outputTensor, ChairClass)]
    /\ UNCHANGED <<DetectWinnerVars, screen>>

DecodeNext == DecodePersons \/ DecodePersonsAndChairs

DecodeSpec == DecodeInit /\ [][DecodeNext]_vars

\* the score the tensor holds for class c of a cell: the one listed, or 0
ScoreOf(cell, c) ==
    IF \E s \in cell.scores : s[1] = c
    THEN (CHOOSE s \in cell.scores : s[1] = c)[2]
    ELSE 0

\* c is the argmax of the 80 class scores of the cell (the first class that
\* holds the largest score), that score is at least 0.7, and the width and
\* the height of the box are above 0.02
Qualifies(cell, c) ==
    /\ \A d \in 0..(NumClasses - 1) : ScoreOf(cell, d) <= ScoreOf(cell, c)
    /\ \A d \in 0..(c - 1) : ScoreOf(cell, d) < ScoreOf(cell, c)
    /\ ScoreOf(cell, c) >= 70
    /\ cell.bbox.width > 2
    /\ cell.bbox.height > 2

\* the cells of a list that do not qualify for class c, in order
RECURSIVE WithoutClass(_, _)
WithoutClass(cells, c) ==
    IF cells = <<>> THEN <<>>
    ELSE (IF Qualifies(Head(cells), c) THEN <<>> ELSE <<Head(cells)>>)
         \o WithoutClass(Tail(cells), c)

\* C15: suppression is per class.  The persons that
\* processOutputTensorToCountPersonsAndChairs returns are those it returns
\* for the tensor without its chair cells, the chairs those it returns for
\* the tensor without its person cells; a person and a chair on the same box
\* are both kept.
C15_PerClassSuppression ==
    (call.fn = "decode" /\ call.bothDone) =>
        /\ call.both.persons =
               processOutputTensorToCountPersonsAndChairs(
                   Tensor(call.dims, WithoutClass(call.cells, ChairClass))).persons
        /\ call.both.chairs =
               processOutputTensorToCountPersonsAndChairs(
                   Tensor(call.dims, WithoutClass(call.cells, PersonClass))).chairs
        /\ (/\ Len(call.rawPersons) = 1
            /\ Len(call.rawChairs) = 1
            /\ call.rawPersons[1].bbox = call.rawChairs[1].bbox)
           => /\ call.both.persons = StripCorners(call.rawPersons)
              /\ call.both.chairs = StripCorners(call.rawChairs)

\* a tensor with a chair on the box of a person has been decoded
C15_Witness ==
    /\ call.fn = "decode" /\ call.bothDone
    /\ call.dims = ReferenceShape
    /\ call.cells = <<ChairOnPersonCell, PersonCell>>
    /\ call.both.personCount = 1
    /\ call.both.chairCount = 1
    /\ call.both.persons[1].bbox = call.both.chairs[1].bbox

\* C16: for a tensor whose shape is not exactly [1, 84, 8400] both decoders
\* return an empty result (zero counts, empty lists).
C16_ShapeGuard ==
    (call.fn = "decode" /\ call.dims # ReferenceShape) =>
        /\ call.personsDone => call.persons = NoPersons
        /\ call.bothDone => call.both = NoDetections

\* the cells of a list that qualify for class c, in order, as detections
RECURSIVE ExpectedOfClass(_, _)
ExpectedOfClass(cells, c) ==
    IF cells = <<>> THEN <<>>
    ELSE (IF Qualifies(Head(cells), c)
          THEN <<[confidence |-> ScoreOf(Head(cells), c), bbox |-> Head(cells).bbox]>>
          ELSE <<>>)
         \o ExpectedOfClass(Tail(cells), c)

\* C17: for a tensor of the reference shape, the raw candidates of class
\* person (0) and chair (56) are exactly the cells whose argmax class is that
\* class with a score >= 0.7 and whose width and height are > 0.02, each with
\* the box read from the planes 0..3 of its cell; so both decoders return
\* just that cell's box when exactly one cell qualifies as a person.
C17_RawCandidates ==
    (call.fn = "decode" /\ ~ShapeMismatch(call.dims)) =>
        /\ call.bothDone =>
               /\ StripCorners(call.rawPersons) = ExpectedOfClass(call.cells, PersonClass)
               /\ StripCorners(call.rawChairs) = ExpectedOfClass(call.cells, ChairClass)
               /\ Len(ExpectedOfClass(call.cells, PersonClass)) = 1 =>
                      call.both.persons = ExpectedOfClass(call.cells, PersonClass)
        /\ call.personsDone =>
               /\ \A d \in Range(call.persons.detections) :
                      d \in Range(ExpectedOfClass(call.cells, PersonClass))
               /\ Len(ExpectedOfClass(call.cells, PersonClass)) = 1 =>
                      /\ call.persons.personCount = 1
                      /\ call.persons.detections = ExpectedOfClass(call.cells, PersonClass)

\* both decoders have run on a tensor in which one cell, with a score just
\* above 0.7, qualifies as a person next to cells that fail one test each
C17_Witness ==
    /\ call.fn = "decode" /\ call.bothDone /\ call.personsDone
    /\ call.dims = ReferenceShape
    /\ call.cells = <<FlatChairCell, BarelyPersonCell, PersonOrDogCell>>
    /\ call.both.persons = <<[confidence |-> 71, bbox |-> BBox(20, 20, 10, 10)]>>
    /\ call.both.chairCount = 0
    /\ call.persons.personCount = 1

----------------------------------------------------------------------------
(* The search for the best person called on its own *)

Detection(confidence, bbox) == [confidence |-> confidence, bbox |-> bbox]

\* Persons and chairs of a frame.  Their centres are multiples of 0.25, which
\* float32 and double hold exactly, so that equal centre distances here are
\* equal centre distances in the code.
PersonLeft == Detection(90, BBox(25, 50, 10, 10))
PersonRight == Detection(90, BBox(75, 50, 10, 10))
PersonRightStrong == Detection(95, BBox(75, 50, 12, 12))
PersonCentre == Detection(80, BBox(50, 50, 20, 20))
PersonLow == Detection(85, BBox(50, 75, 20, 20))

ChairWide == Detection(80, BBox(50, 50, 60, 60))
ChairLeft == Detection(75, BBox(25, 50, 20, 20))
ChairLowRight == Detection(90, BBox(75, 75, 20, 20))

PersonPool == {PersonLeft, PersonRight, PersonRightStrong, PersonCentre, PersonLow}
ChairPool == {ChairWide, ChairLeft, ChairLowRight}

\* a list the decoder can return: applyNMS at 0.5 leaves it as it is
IsDecoderOutput(dets) ==
    LET raw == [i \in 1..Len(dets) |-> RawDetection(dets[i].confidence, dets[i].bbox)]
    IN  ComparedExactly(raw, 50) /\ StripCorners(applyNMS(raw, 50)) = dets

PersonLists ==
    { persons \in UNION { [1..n -> PersonPool] : n \in 1..MaxPersons } :
          IsDecoderOutput(persons) }

ChairLists ==
    { chairs \in UNION { [1..n -> ChairPool] : n \in 1..MaxChairs } :
          IsDecoderOutput(chairs) }

\* image sizes: no coordinate times a size falls half way between two pixels
MatchImageSizes == { <<100, 100>>, <<640, 480>>, <<1000, 1000>> }

MatchInit ==
    /\ NotRunning
    /\ screen = NoScreen
    /\ \E persons \in PersonLists : \E chairs \in ChairLists : \E size \in MatchImageSizes :
         call = [fn |-> "match", persons |-> persons, chairs |-> chairs,
                 imageWidth |-> size[1], imageHeight |-> size[2],
                 done |-> FALSE, out |-> NoBest]

\* the nested loops over detectionResults.persons and detectionResults.chairs
FindBest ==
    /\ call.fn = "match"
    /\ ~call.done
    /\ call' = [call EXCEPT
                  !.done = TRUE,
                  !.out = FindBestPerson(call.persons, call.chairs,
                                         call.imageWidth, call.imageHeight)]
    /\ UNCHANGED <<DetectWinnerVars, screen>>

MatchNext == FindBest

MatchSpec == MatchInit /\ [][MatchNext]_vars

Matched == call.fn = "match" /\ call.done

\* overlap, centre distance and person confidence of a (person, chair) pair
PairKey(person, chair) ==
    [overlap |-> calculateOverlap(
                     convertToPixelCoords(person.bbox, call.imageWidth, call.imageHeight),
                     convertToPixelCoords(chair.bbox, call.imageWidth, call.imageHeight)),
     distance |-> calculateCenterDistance(person, chair),
     confidence |-> person.confidence]

\* the key of the selected pair
SelectedKey ==
    [overlap |-> call.out.overlap, distance |-> call.out.distance[1],
     confidence |-> call.out.confidence]

SameKey(k1, k2) ==
    /\ RatioEQ(k1.overlap, k2.overlap)
    /\ k1.distance = k2.distance
    /\ k1.confidence = k2.confidence

\* higher overlap first, then smaller centre distance, then higher person confidence
StrictlyBetter(k1, k2) ==
    \/ RatioGT(k1.overlap, k2.overlap)
    \/ (RatioEQ(k1.overlap, k2.overlap) /\ k1.distance < k2.distance)
    \/ (RatioEQ(k1.overlap, k2.overlap) /\ k1.distance = k2.distance
          /\ k1.confidence > k2.confidence)

\* C18: over all (person, chair) pairs of a frame, the selected person
\* belongs to a pair than which no pair is strictly better in the order:
\* higher overlap, then smaller centre distance, then higher person confidence.
C18_SelectedPairIsMaximal ==
    Matched =>
        /\ call.out.found
        /\ \E i \in 1..Len(call.persons) : \E j \in 1..Len(call.chairs) :
               /\ call.out.person = call.persons[i]
               /\ SameKey(PairKey(call.persons[i], call.chairs[j]), SelectedKey)
        /\ \A i \in 1..Len(call.persons) : \A j \in 1..Len(call.chairs) :
               ~StrictlyBetter(PairKey(call.persons[i], call.chairs[j]), SelectedKey)

\* three persons and two chairs; the winner is not the first person and is
\* separated from another pair only by the centre distance
C18_Witness ==
    /\ Matched
    /\ Len(call.persons) = 3
    /\ Len(call.chairs) = 2
    /\ HasClearWinner(call.out)
    /\ call.out.person # call.persons[1]
    /\ \E i \in 1..Len(call.persons) : \E j \in 1..Len(call.chairs) :
         LET k == PairKey(call.persons[i], call.chairs[j])
         IN  RatioEQ(k.overlap, SelectedKey.overlap) /\ k.distance > SelectedKey.distance

\* the lists that hold the elements of seq in another order
Reorderings(seq) ==
    { [i \in 1..Len(seq) |-> seq[f[i]]] :
          f \in { g \in [1..Len(seq) -> 1..Len(seq)] :
                      \A a, b \in 1..Len(seq) : a # b => g[a] # g[b] } }

\* C19 (as claimed): every permutation of the persons list and of the chairs
\* list gives the same selected person.
C19_OrderIndependent ==
    Matched =>
        \A persons \in Reorderings(call.persons) : \A chairs \in Reorderings(call.chairs) :
            FindBestPerson(persons, chairs, call.imageWidth, call.imageHeight).person
                = call.out.person

\* no pair of another person has the overlap, centre distance and person
\* confidence of the selected pair
SelectionIsUnique ==
    \A i \in 1..Len(call.persons) : \A j \in 1..Len(call.chairs) :
        SameKey(PairKey(call.persons[i], call.chairs[j]), SelectedKey)
            => call.persons[i] = call.out.person

\* C19 (amended): every permutation of the persons list and of the chairs
\* list gives a selected pair of the same overlap, centre distance and person
\* confidence, and the same selected person unless a pair of another person
\* ties with the selected pair in all three.
C19_OrderIndependentUpToTies ==
    Matched =>
        \A persons \in Reorderings(call.persons) : \A chairs \in Reorderings(call.chairs) :
            LET other == FindBestPerson(persons, chairs, call.imageWidth, call.imageHeight)
            IN  /\ other.found = call.out.found
                /\ RatioEQ(other.overlap, call.out.overlap)
                /\ other.distance = call.out.distance
                /\ other.confidence = call.out.confidence
                /\ SelectionIsUnique => other.person = call.out.person

\* three persons and two chairs with a clear winner that is not the first
\* person, so that reordering moves the winner, and whose pair is the only one
\* with its overlap, distance and confidence
C19_Witness ==
    /\ Matched
    /\ Len(call.persons) = 3
    /\ Len(call.chairs) = 2
    /\ HasClearWinner(call.out)
    /\ call.out.person # call.persons[1]
    /\ SelectionIsUnique

----------------------------------------------------------------------------
(* convertToPixelCoords and calculateOverlap called on their own *)

\* person boxes and chair boxes in normalised coordinates (hundredths)
OverlapPersonBoxes ==
    { BBox(xc, 50, w, h) : xc \in {30, 50}, w \in {10, 20}, h \in {10, 20} }

OverlapChairBoxes ==
    { BBox(xc, 50, w, h) : xc \in {50, 52}, w \in {25, 64}, h \in {25, 64} }

\* image sizes: no coordinate times a size falls half way between two pixels
OverlapImageSizes == { <<100, 100>>, <<1000, 1000>>, <<1080, 1920>> }

NoPixelBox ==
    [x1 |-> 0, y1 |-> 0, x2 |-> 0, y2 |-> 0,
     pixelX |-> 0, pixelY |-> 0, pixelWidth |-> 0, pixelHeight |-> 0]

OverlapInit ==
    /\ NotRunning
    /\ screen = NoScreen
    /\ \E person \in OverlapPersonBoxes : \E chair \in OverlapChairBoxes :
       \E size \in OverlapImageSizes :
         call = [fn |-> "overlap", person |-> person, chair |-> chair,
                 imageWidth |-> size[1], imageHeight |-> size[2],
                 step |-> 0, personPixel |-> NoPixelBox, chairPixel |-> NoPixelBox,
                 overlap |-> <<0, 0>>]

\* personPixel = convertToPixelCoords(person.bbox, ...), chairPixel likewise
ConvertBoxes ==
    /\ call.fn = "overlap"
    /\ call.step = 0
    /\ call' = [call EXCEPT
                  !.step = 1,
                  !.personPixel = convertToPixelCoords(call.person, call.imageWidth,
                                                       call.imageHeight),
                  !.chairPixel = convertToPixelCoords(call.chair, call.imageWidth,
                                                      call.imageHeight)]
    /\ UNCHANGED <<DetectWinnerVars, screen>>

\* overlap = calculateOverlap(personPixel, chairPixel)
ComputeOverlap ==
    /\ call.fn = "overlap"
    /\ call.step = 1
    /\ call' = [call EXCEPT
                  !.step = 2,
                  !.overlap = calculateOverlap(call.personPixel, call.chairPixel)]
    /\ UNCHANGED <<DetectWinnerVars, screen>>

OverlapNext == ConvertBoxes \/ ComputeOverlap

OverlapSpec == OverlapInit /\ [][OverlapNext]_vars

OverlapComputed == call.fn = "overlap" /\ call.step = 2

\* box a lies inside box b, in normalised coordinates (edges doubled)
Inside(a, b) ==
    /\ 2 * a.x_center - a.width >= 2 * b.x_center - b.width
    /\ 2 * a.x_center + a.width <= 2 * b.x_center + b.width
    /\ 2 * a.y_center - a.height >= 2 * b.y_center - b.height
    /\ 2 * a.y_center + a.height <= 2 * b.y_center + b.height

\* the overlap is intersection / area of the person's pixel box and lies in [0, 1]
DirectionalInUnitInterval ==
    /\ call.overlap[2] = call.personPixel.pixelWidth * call.personPixel.pixelHeight
    /\ call.overlap[2] > 0
    /\ 0 <= call.overlap[1]
    /\ call.overlap[1] <= call.overlap[2]

\* C20 (as claimed): the overlap is the intersection divided by the area of
\* the person's pixel box; it is exactly 1.0 for every person box inside the
\* chair box in normalised coordinates, at every image size, and lies in
\* [0, 1] for every person box of positive area.
C20_ContainedGivesOne ==
    OverlapComputed =>
        /\ DirectionalInUnitInterval
        /\ Inside(call.person, call.chair) => call.overlap[1] = call.overlap[2]

\* centre and size of a box are a whole number of pixels at the image size
WholePixels(bbox, imageWidth, imageHeight) ==
    /\ (bbox.x_center * imageWidth) % 100 = 0
    /\ (bbox.y_center * imageHeight) % 100 = 0
    /\ (bbox.width * imageWidth) % 100 = 0
    /\ (bbox.height * imageHeight) % 100 = 0

\* C20 (amended): the overlap is the intersection divided by the area of the
\* person's pixel box; it is exactly 1.0 for every person box inside the chair
\* box in normalised coordinates when the centres and sizes of both boxes are
\* whole numbers of pixels at the image size, and lies in [0, 1] for every
\* person box of positive area.
C20_ContainedGivesOneOnWholePixels ==
    OverlapComputed =>
        /\ DirectionalInUnitInterval
        /\ (/\ Inside(call.person, call.chair)
            /\ WholePixels(call.person, call.imageWidth, call.imageHeight)
            /\ WholePixels(call.chair, call.imageWidth, call.imageHeight))
           => call.overlap[1] = call.overlap[2]

\* person (0.5, 0.5, 0.2, 0.2) inside chair (0.5, 0.5, 0.25, 0.25) at 1000 x 1000
C20_Witness ==
    /\ OverlapComputed
    /\ call.person = BBox(50, 50, 20, 20)
    /\ call.chair = BBox(50, 50, 25, 25)
    /\ call.imageWidth = 1000 /\ call.imageHeight = 1000
    /\ call.overlap = <<40000, 40000>>

(* imageToTensor called on its own *)

\* A sample of a Float32Array is a ratio <<numerator, 255>>; <<0, 0>> is NaN.
\* The buffers of imageToTensor hold 3 * 640 * 640 samples: they are never
\* built as a whole, the sample at one index is computed from the loop
\* iterations that write that index (the last one wins), a fresh
\* Float32Array holding 0.0 everywhere.

targetSize == 640

ZeroSample == <<0, 255>>

NaNSample == <<0, 0>>

Scale_cropping(origWidth, origHeight) ==
    IF targetSize * origHeight <= targetSize * origWidth
    THEN <<targetSize, origHeight>>
    ELSE <<targetSize, origWidth>>

\* scale = Math.min(targetSize / origWidth, targetSize / origHeight), as
\* <<numerator, denominator>>
Scale(origWidth, origHeight) ==
    IF targetSize * origHeight <= targetSize * origWidth
    THEN <<targetSize, origWidth>>
    ELSE <<targetSize, origHeight>>

\* Math.round(origLength * scale)
ResizedLength(origLength, scale) == RoundDiv(origLength * scale[1], scale[2])

Offset_flushLeft(newLength) == 0

\* Math.floor((finalWidth - newWidth) / 2), likewise for the height
Offset(newLength) == (targetSize - newLength) \div 2

\* the locals of imageToTensor that place the resized image on the canvas
Geometry(origWidth, origHeight) ==
    LET scale == Scale(origWidth, origHeight)
        newWidth == ResizedLength(origWidth, scale)
        newHeight == ResizedLength(origHeight, scale)
    IN  [newWidth |-> newWidth, newHeight |-> newHeight,
         finalWidth |-> targetSize, finalHeight |-> targetSize,
         xOffset |-> Offset(newWidth), yOffset |-> Offset(newHeight)]

\* the byte of channel k (0 red .. 3 alpha) of pixel (x, y) of a picture
PatternByte(pattern, x, y, k) ==
    IF k = 3 THEN 255
    ELSE IF pattern = "white" THEN 255
    ELSE IF pattern = "black" THEN 0
    ELSE (7 * x + 13 * y + 85 * k) % 256

\* decoded.data[index] of a decoded picture of width x height RGBA pixels;
\* -1 stands for undefined (an index past the end of the array)
DecodedByte(decoded, index) ==
    IF index < 0 \/ index >= decoded.width * decoded.height * 4 THEN 0 - 1
    ELSE LET pixel == index \div 4
         IN  PatternByte(decoded.pattern, pixel % decoded.width,
                         pixel \div decoded.width, index % 4)

Normalise_byHalf(byte) == IF byte < 0 THEN NaNSample ELSE <<2 * byte, 255>>

\* byte / 255.0 (undefined / 255.0 is NaN)
Normalise(byte) == IF byte < 0 THEN NaNSample ELSE <<byte, 255>>

resizedIndex(y, x, newWidth) == (y * newWidth + x) * 4

finalIndex(y, x, g) == ((y + g.yOffset) * g.finalWidth + (x + g.xOffset)) * 3

\* the greatest triple of a non-empty set of triples, in loop order
LastOf(triples) ==
    CHOOSE t \in triples : \A u \in triples :
        \/ u[1] < t[1]
        \/ u[1] = t[1] /\ u[2] < t[2]
        \/ u[1] = t[1] /\ u[2] = t[2] /\ u[3] <= t[3]

\* the iterations <<y, x, k>> of the copy loop that write finalData[idx]:
\* finalData[finalIndex + k] with k = 0, 1, 2 for red, green, blue
CopyWriters(idx, g) ==
    IF idx < 0 \/ idx >= g.finalWidth * g.finalHeight * 3 THEN {}
    ELSE { t \in { <<y, (idx - k) \div 3 - (y + g.yOffset) * g.finalWidth - g.xOffset, k>> :
                     y \in 0..(g.newHeight - 1), k \in 0..2 } :
             /\ (idx - t[3]) % 3 = 0
             /\ t[2] >= 0 /\ t[2] < g.newWidth }

\* finalData[idx] after the copy loop
finalData(idx, decoded, g) ==
    LET writers == CopyWriters(idx, g)
    IN  IF writers = {} THEN ZeroSample
        ELSE LET t == LastOf(writers)
             IN  Normalise(DecodedByte(decoded, resizedIndex(t[1], t[2], g.newWidth) + t[3]))

idxHWC(h, w, c, g) == h * g.finalWidth * 3 + w * 3 + c

idxCHW_rowMajor(h, w, c, g) == c * g.finalWidth + h * g.finalWidth + w

idxCHW(h, w, c, g) == c * g.finalWidth * g.finalHeight + h * g.finalWidth + w

\* the iterations <<h, w, c>> of the layout loop that write chwData[idx]
LayoutWriters(idx, g) ==
    IF idx < 0 \/ idx >= 3 * g.finalWidth * g.finalHeight THEN {}
    ELSE { t \in { <<h, idx - idxCHW(h, 0, c, g), c>> :
                     h \in 0..(g.finalHeight - 1), c \in 0..2 } :
             t[2] >= 0 /\ t[2] < g.finalWidth }

\* chwData[idx] after the layout loop
chwData(idx, decoded, g) ==
    LET writers == LayoutWriters(idx, g)
    IN  IF writers = {} THEN ZeroSample
        ELSE LET t == LastOf(writers)
             IN  finalData(idxHWC(t[1], t[2], t[3], g), decoded, g)

\* source sizes: square, landscape, portrait, a single pixel, odd padding,
\* a rounding tie (768 x 3) and sizes whose shorter side rounds to 0 or 1
SourceSizes ==
    { <<640, 640>>, <<1280, 720>>, <<720, 1280>>, <<1, 1>>, <<1000, 999>>,
      <<3, 2>>, <<2000, 1>>, <<1, 2000>>, <<4032, 3024>>, <<768, 3>>,
      <<641, 640>>, <<1279, 1>> }

Patterns == { "white", "black", "gradient" }

\* rows (or columns) of the canvas around the edges of the resized image
EdgeLines(newLength) ==
    LET offset == Offset(newLength)
    IN  { 0, offset - 1, offset, offset + newLength - 1, offset + newLength,
          targetSize - 1 } \cap (0..(targetSize - 1))

\* the tensor elements <<c, h, w>> that are read back
Samples(origWidth, origHeight) ==
    LET g == Geometry(origWidth, origHeight)
    IN  { <<c, h, w>> : c \in 0..2, h \in EdgeLines(g.newHeight),
                        w \in EdgeLines(g.newWidth) }

NoGeometry ==
    [newWidth |-> 0, newHeight |-> 0, finalWidth |-> 0, finalHeight |-> 0,
     xOffset |-> 0, yOffset |-> 0]

NoTensor == [type |-> "none", dims |-> <<>>, length |-> 0, sample |-> NaNSample]

TensorInit ==
    /\ NotRunning
    /\ screen = NoScreen
    /\ \E size \in SourceSizes : \E pattern \in Patterns :
       \E at \in Samples(size[1], size[2]) :
         call = [fn |-> "imageToTensor", origWidth |-> size[1],
                 origHeight |-> size[2], pattern |-> pattern, at |-> at,
                 pc |-> "getImageDimensions", g |-> NoGeometry,
                 tensor |-> NoTensor]

\* getImageDimensions resolves: scale, newWidth and newHeight are computed and
\* manipulateAsync is called
DimensionsResolved ==
    /\ call.fn = "imageToTensor"
    /\ call.pc = "getImageDimensions"
    /\ call' = [call EXCEPT !.pc = "manipulateAsync",
                            !.g = Geometry(call.origWidth, call.origHeight)]
    /\ UNCHANGED <<DetectWinnerVars, screen>>

\* getImageDimensions rejects: imageToTensor rejects
DimensionsRejected ==
    /\ call.fn = "imageToTensor"
    /\ call.pc = "getImageDimensions"
    /\ call' = [call EXCEPT !.pc = "thrown"]
    /\ UNCHANGED <<DetectWinnerVars, screen>>

\* manipulateAsync resolves with the base64 of a JPEG of newWidth x newHeight
\* pixels: it is decoded, copied onto the canvas, laid out channel first and
\* returned as a tensor
ManipulateResolved ==
    /\ call.fn = "imageToTensor"
    /\ call.pc = "manipulateAsync"
    /\ LET g == call.g
           decoded == [width |-> g.newWidth, height |-> g.newHeight,
                       pattern |-> call.pattern]
           at == call.at
       IN  call' = [call EXCEPT
                      !.pc = "returned",
                      !.tensor = [type |-> "float32",
                                  dims |-> <<1, 3, g.finalHeight, g.finalWidth>>,
                                  length |-> 3 * g.finalWidth * g.finalHeight,
                                  sample |-> chwData(idxCHW(at[2], at[3], at[1], g),
                                                     decoded, g)]]
    /\ UNCHANGED <<DetectWinnerVars, screen>>

\* manipulateAsync rejects, resolves without base64, or the JPEG does not
\* decode: imageToTensor rejects
ManipulateFailed ==
    /\ call.fn = "imageToTensor"
    /\ call.pc = "manipulateAsync"
    /\ call' = [call EXCEPT !.pc = "thrown"]
    /\ UNCHANGED <<DetectWinnerVars, screen>>

TensorNext ==
    DimensionsResolved \/ DimensionsRejected \/ ManipulateResolved \/ ManipulateFailed

TensorSpec == TensorInit /\ [][TensorNext]_vars

TensorReturned == call.fn = "imageToTensor" /\ call.pc = "returned"

\* the tensor element read back lies in the rectangle of newWidth x newHeight
\* samples that starts at (xo, yo)
InRectangle(at, xo, yo, g) ==
    /\ at[3] >= xo /\ at[3] < xo + g.newWidth
    /\ at[2] >= yo /\ at[2] < yo + g.newHeight

\* C21: in every tensor imageToTensor returns, the resized picture occupies
\* exactly the newWidth x newHeight rectangle that starts at
\* (floor((640 - newWidth) / 2), floor((640 - newHeight) / 2)): a sample
\* inside it is the byte of the resized picture at that place over 255, a
\* sample outside it is 0.0 in each of the three channels; the padding on
\* the left (top) and on the right (bottom) differ by at most one sample.
C21_Letterbox ==
    TensorReturned =>
        LET g == call.g
            at == call.at
            xo == (640 - g.newWidth) \div 2
            yo == (640 - g.newHeight) \div 2
        IN  /\ g.xOffset = xo /\ g.yOffset = yo
            /\ InRectangle(at, xo, yo, g) =>
                 call.tensor.sample =
                     <<PatternByte(call.pattern, at[3] - xo, at[2] - yo, at[1]), 255>>
            /\ ~InRectangle(at, xo, yo, g) => call.tensor.sample = <<0, 255>>
            /\ (640 - g.newWidth - xo) - xo \in {0, 1}
            /\ (640 - g.newHeight - yo) - yo \in {0, 1}

\* 1000 x 999 is resized to 640 x 639: no padding above, one row below; the
\* last row of the canvas is 0.0 and the row above it is the picture
C21_Witness ==
    /\ TensorReturned
    /\ call.origWidth = 1000 /\ call.origHeight = 999
    /\ call.g.newHeight = 639 /\ call.g.yOffset = 0
    /\ call.pattern = "white"
    /\ call.at = <<2, 639, 0>>
    /\ call.tensor.sample = ZeroSample

\* the copy loop has run for a picture of at least one pixel
C21_WitnessInside ==
    /\ TensorReturned
    /\ call.origWidth = 1280 /\ call.origHeight = 720
    /\ call.g.yOffset = 140
    /\ call.pattern = "gradient"
    /\ call.at = <<1, 140, 0>>
    /\ call.tensor.sample = <<85, 255>>

\* the sizes are known: getImageDimensions has resolved
Resized == call.fn = "imageToTensor" /\ call.pc \in {"manipulateAsync", "returned"}

\* C22: for every source of at least 1 x 1 pixels, newWidth and newHeight
\* are both at most 640 and the larger of them is 640, both offsets are at
\* least 0, and every index the copy loop writes lies inside the buffer of
\* 640 * 640 * 3 samples, on the canvas row and column of its pixel.
C22_FitsCanvas ==
    Resized =>
        LET g == call.g
        IN  /\ call.origWidth >= 1 /\ call.origHeight >= 1
            /\ g.newWidth <= 640 /\ g.newHeight <= 640
            /\ Max(g.newWidth, g.newHeight) = 640
            /\ g.xOffset >= 0 /\ g.yOffset >= 0
            /\ \A x \in 0..(g.newWidth - 1) : x + g.xOffset < 640
            /\ \A y \in 0..(g.newHeight - 1) : y + g.yOffset < 640
            /\ \A y \in {0, g.newHeight - 1} \cap (0..(g.newHeight - 1)) :
               \A x \in {0, g.newWidth - 1} \cap (0..(g.newWidth - 1)) :
               \A k \in 0..2 :
                 /\ finalIndex(y, x, g) + k >= 0
                 /\ finalIndex(y, x, g) + k < 640 * 640 * 3

\* 4032 x 3024 is resized to 640 x 480 and placed 80 rows down
C22_Witness ==
    /\ Resized
    /\ call.origWidth = 4032 /\ call.origHeight = 3024
    /\ call.g.newWidth = 640 /\ call.g.newHeight = 480
    /\ call.g.xOffset = 0 /\ call.g.yOffset = 80
    /\ finalIndex(479, 639, call.g) + 2 = (559 * 640 + 639) * 3 + 2

\* the iterations <<h, w, c>> of the inverse loop,
\* HWC[h*W*3 + w*3 + c] = CHW[c*H*W + h*W + w], that write HWC[idx]
InverseWriters(idx, g) ==
    { t \in { <<h, (idx - c - h * g.finalWidth * 3) \div 3, c>> :
                h \in 0..(g.finalHeight - 1), c \in 0..2 } :
        /\ (idx - t[3] - t[1] * g.finalWidth * 3) % 3 = 0
        /\ t[2] >= 0 /\ t[2] < g.finalWidth }

\* the index of the H x W x 3 buffer whose sample is at idx after converting
\* to 3 x H x W and back
RoundTripSource(idx, g) ==
    LET back == LastOf(InverseWriters(idx, g))
        forth == LastOf(LayoutWriters(idxCHW(back[1], back[2], back[3], g), g))
    IN  idxHWC(forth[1], forth[2], forth[3], g)

\* C23: the layout loop writes every element of the 3 x H x W buffer exactly
\* once, every element of the H x W x 3 buffer is read for exactly one of
\* them, and converting to 3 x H x W and back with the inverse mapping leaves
\* every sample at its index.
C23_LayoutBijection ==
    TensorReturned =>
        LET g == call.g
            at == call.at
            chw == idxCHW(at[2], at[3], at[1], g)
            hwc == idxHWC(at[2], at[3], at[1], g)
        IN  /\ chw \in 0..(3 * 640 * 640 - 1)
            /\ hwc \in 0..(640 * 640 * 3 - 1)
            /\ LayoutWriters(chw, g) = {<<at[2], at[3], at[1]>>}
            /\ InverseWriters(hwc, g) = {<<at[2], at[3], at[1]>>}
            /\ RoundTripSource(hwc, g) = hwc
            /\ call.tensor.sample =
                   finalData(hwc, [width |-> g.newWidth, height |-> g.newHeight,
                                   pattern |-> call.pattern], g)

\* the last element of the blue plane is the blue byte of the last pixel
C23_Witness ==
    /\ TensorReturned
    /\ call.origWidth = 640 /\ call.origHeight = 640
    /\ call.pattern = "gradient"
    /\ call.at = <<2, 639, 639>>
    /\ idxCHW(639, 639, 2, call.g) = 3 * 640 * 640 - 1
    /\ LayoutWriters(3 * 640 * 640 - 1, call.g) = {<<639, 639, 2>>}
    /\ call.tensor.sample = <<PatternByte("gradient", 639, 639, 2), 255>>

\* C24: every tensor imageToTensor returns has shape [1, 3, 640, 640], a data
\* length equal to the product of its shape (1,228,800), and values in [0, 1].
C24_ShapeAndRange ==
    TensorReturned =>
        /\ call.tensor.dims = <<1, 3, 640, 640>>
        /\ call.tensor.length =
               call.tensor.dims[1] * call.tensor.dims[2] * call.tensor.dims[3]
               * call.tensor.dims[4]
        /\ call.tensor.length = 1228800
        /\ call.tensor.sample[2] = 255
        /\ call.tensor.sample[1] >= 0
        /\ call.tensor.sample[1] <= 255

\* a white pixel becomes 1.0
C24_Witness ==
    /\ TensorReturned
    /\ call.origWidth = 1 /\ call.origHeight = 1
    /\ call.pattern = "white"
    /\ call.at = <<0, 0, 0>>
    /\ call.tensor.sample = <<255, 255>>

(* cropImageToBoundingBox called on its own *)

\* boxes with the centre in [0, 1] and width and height above 0.02
CropBoxes ==
    { BBox(xc, yc, w, h) : xc \in {0, 50, 100}, yc \in {0, 50, 100},
                           w \in {3, 10, 150}, h \in {3, 50} }

CropImageSizes ==
    { <<40, 40>>, <<75, 75>>, <<100, 100>>, <<640, 480>>, <<1080, 1920>> }

\* the default padding 0.1 and the 0.2 detectWinner passes
Paddings == { 10, 20 }

CropInit ==
    /\ NotRunning
    /\ screen = NoScreen
    /\ \E bbox \in CropBoxes : \E size \in CropImageSizes : \E padding \in Paddings :
         call = [fn |-> "cropImageToBoundingBox", imageUri |-> <<1>>, bbox |-> bbox,
                 imageWidth |-> size[1], imageHeight |-> size[2],
                 padding |-> padding, pc |-> "start",
                 pixelCoords |-> NoPixelBox, crop |-> <<0, 0, 0, 0>>,
                 returned |-> Null]

\* the pixel box and the crop rectangle are computed and manipulateAsync is called
ComputeCropRect ==
    /\ call.fn = "cropImageToBoundingBox"
    /\ call.pc = "start"
    /\ call' = [call EXCEPT
                  !.pc = "manipulateAsync",
                  !.pixelCoords = convertToPixelCoords(call.bbox, call.imageWidth,
                                                       call.imageHeight),
                  !.crop = CropRect(call.bbox, call.imageWidth, call.imageHeight,
                                    call.padding)]
    /\ UNCHANGED <<DetectWinnerVars, screen>>

\* manipulateAsync resolves: croppedImage.uri is returned
CropResolved ==
    /\ call.fn = "cropImageToBoundingBox"
    /\ call.pc = "manipulateAsync"
    /\ call' = [call EXCEPT
                  !.pc = "returned",
                  !.returned = cropImageToBoundingBox(call.imageUri, call.bbox,
                                   call.imageWidth, call.imageHeight, call.padding, TRUE)]
    /\ UNCHANGED <<DetectWinnerVars, screen>>

\* manipulateAsync rejects: the catch block returns imageUri
CropRejected ==
    /\ call.fn = "cropImageToBoundingBox"
    /\ call.pc = "manipulateAsync"
    /\ call' = [call EXCEPT
                  !.pc = "returned",
                  !.returned = cropImageToBoundingBox(call.imageUri, call.bbox,
                                   call.imageWidth, call.imageHeight, call.padding, FALSE)]
    /\ UNCHANGED <<DetectWinnerVars, screen>>

CropNext == ComputeCropRect \/ CropResolved \/ CropRejected

CropSpec == CropInit /\ [][CropNext]_vars

CropComputed ==
    call.fn = "cropImageToBoundingBox" /\ call.pc \in {"manipulateAsync", "returned"}

\* the centre of the box lies in [0, 1], its width and height exceed 0.02
PersonBoxInRange(bbox) ==
    /\ bbox.x_center >= 0 /\ bbox.x_center <= 100
    /\ bbox.y_center >= 0 /\ bbox.y_center <= 100
    /\ bbox.width > 2 /\ bbox.height > 2

\* the crop rectangle <<cropX, cropY, cropWidth, cropHeight>> lies inside the image
CropInsideImage(crop, imageWidth, imageHeight) ==
    /\ crop[1] >= 0 /\ crop[2] >= 0
    /\ crop[1] + crop[3] <= imageWidth
    /\ crop[2] + crop[4] <= imageHeight

\* the crop rectangle contains the part of the pixel box that is inside the image
CropContainsBox(crop, p, imageWidth, imageHeight) ==
    /\ crop[1] <= Max(0, p.x1)
    /\ crop[2] <= Max(0, p.y1)
    /\ crop[1] + crop[3] >= Min(imageWidth, p.x2)
    /\ crop[2] + crop[4] >= Min(imageHeight, p.y2)

\* C25 (as claimed): for every person box with the centre in [0, 1] and width
\* and height above 0.02, and every image size, the crop rectangle lies
\* inside the image, has positive width and height, and contains the part of
\* the person's pixel box that lies inside the image.
C25_CropRectangle ==
    (CropComputed /\ PersonBoxInRange(call.bbox)) =>
        /\ CropInsideImage(call.crop, call.imageWidth, call.imageHeight)
        /\ call.crop[3] > 0 /\ call.crop[4] > 0
        /\ CropContainsBox(call.crop, call.pixelCoords, call.imageWidth, call.imageHeight)

\* C25 (amended): for every person box with the centre in [0, 1] and width
\* and height above 0.02, and every image of at least 75 x 75 pixels, the crop
\* rectangle lies inside the image, has positive width and height, and
\* contains the part of the person's pixel box that lies inside the image;
\* for a smaller image it still lies inside the image and contains that part,
\* but its width or height can be 0.
C25_CropRectangleFrom75 ==
    (CropComputed /\ PersonBoxInRange(call.bbox)) =>
        /\ CropInsideImage(call.crop, call.imageWidth, call.imageHeight)
        /\ (call.imageWidth >= 75 /\ call.imageHeight >= 75)
             => (call.crop[3] > 0 /\ call.crop[4] > 0)
        /\ CropContainsBox(call.crop, call.pixelCoords, call.imageWidth, call.imageHeight)

\* a box at the right edge of a 75 x 75 image: the padded box is cut at the edge
C25_Witness ==
    /\ CropComputed
    /\ call.bbox = BBox(100, 50, 3, 50)
    /\ call.imageWidth = 75 /\ call.imageHeight = 75
    /\ call.padding = 20
    /\ call.pixelCoords.x1 = 74 /\ call.pixelCoords.x2 = 76
    /\ call.crop[1] = 74 /\ call.crop[3] = 1

(* The crop of the winner inside detectWinner *)

\* C26: when the crop of the winner ends, whether the manipulator produced the
\* crop or failed, detectWinner returns at once with success = true for the
\* attempt that matched, with fullImage the image of that attempt; when the
\* crop failed winnerImage is that same image.  No retry, delay or failure
\* result follows a qualifying match.
C26_CropFailureKeepsSuccess ==
    [][(pc = "crop" /\ pc' # "crop") =>
         /\ pc' = "done"
         /\ promise' = "fulfilled"
         /\ result'.success
         /\ result'.attempts = attempt
         /\ result'.fullImage = picture
         /\ result'.confidence = best.confidence
         /\ \/ result'.winnerImage =
                  picture \o CropRect(best.person.bbox, imageSize[1], imageSize[2], 20)
            \/ result'.winnerImage = result'.fullImage
         /\ captures' = captures
         /\ attempt' = attempt]_vars

\* a match in the first attempt whose crop failed: the image itself is the winner image
C26_Witness ==
    /\ Returned /\ result.success
    /\ result.attempts = 1
    /\ outcomes = <<"match">>
    /\ result.winnerImage = <<1>>
    /\ result.fullImage = <<1>>

-----------------------------------------------------------------------------
(* The game screen (src/app/(tabs)/CameraScreen.tsx) *)

\* `screen' is a record of the component's React state (isActive,
\* selectedNumber, ...), its refs (cameraRef, soundRef, countdownIntervalRef,
\* detectionCanceledRef, playbackPositionRef), the module variable
\* previousChairCount (0 when the module is loaded, kept from one mount of
\* the screen to the next), the timers and intervals that are pending, and the
\* async functions that are suspended in an await (tasks).  A state setter
\* takes effect with the handler that calls it as long as the component is
\* mounted; once it is unmounted the setters do nothing, while the refs, the
\* timers, the intervals and the suspended functions go on.  A nullable
\* number is Null or <<n>>.
\* soundRef is "none" for null, else the state of the sound it refers to
\* ("playing", "paused", "stopped", "unloaded"); an operation on a sound takes
\* effect when it is called, and on an unloaded sound playAsync, pauseAsync
\* and stopAsync reject.  playbackPositionRef is 0 or 1 (a position above 0).
\* Bundled assets load: Audio.setAudioModeAsync, Audio.Sound.createAsync and
\* the operations on a loaded sound resolve.

\* largest number of button presses of the user that is explored, the presses
\* of the button of the home screen included
MaxUserActions == 3

\* let count = 5 of startGameCountdown
GameCountdownFrom == 5

\* let count = 10 of startSettleCountdown
SettleCountdownFrom == 10

\* let count = 10 of startGameOverCountdown
GameOverCountdownFrom == 10

\* person counts a detection frame returns
PersonCounts == { 1, 2, 3 }

\* numbers the user picks in the selector (it offers 1 .. 20)
SelectableNumbers == { 1, 2 }

Some(n) == <<n>>

Task(fn, at, data) == [fn |-> fn, pc |-> at, data |-> data]

\* the screen as the component is mounted: the intro video plays and the
\* camera permission is not yet known
MountedScreen ==
    [mounted |-> TRUE,
     modelSession |-> FALSE,
     showIntroVideo |-> TRUE,
     granted |-> FALSE,
     cameraRef |-> FALSE,
     isActive |-> FALSE,
     isDetecting |-> FALSE,
     detectionCanceledRef |-> FALSE,
     detectedPersonCount |-> Null,
     showPersonDetectionPrompt |-> FALSE,
     showNumberSelector |-> FALSE,
     showNotEnoughPlayersError |-> FALSE,
     selectedNumber |-> 1,
     previousChairCount |-> 0,
     countdown |-> Null,
     gameOverCountdown |-> Null,
     gameOver |-> FALSE,
     showWarning |-> FALSE,
     winnerDetectionResult |-> Null,
     isDetectingWinner |-> FALSE,
     soundRef |-> "none",
     playbackPositionRef |-> 0,
     orphans |-> 0,
     timeouts |-> EmptyBag,
     rawTimeouts |-> EmptyBag,
     dueFirst |-> 0,
     intervals |-> {},
     countdownIntervalRef |-> Null,
     tasks |-> EmptyBag,
     userActions |-> 0,
     startedWith |-> 1,
     cancelled |-> FALSE,
     published |-> 0,
     staleResult |-> FALSE,
     earlier |-> <<>>]

\* setManagedTimeout(callback, delay)
setManagedTimeout(s, callback) ==
    [s EXCEPT !.timeouts = @ (+) SetToBag({callback})]

\* clearAllTimeouts()
clearAllTimeouts(s) == [s EXCEPT !.timeouts = EmptyBag, !.dueFirst = 0]

\* a managed timer is due: it is no longer pending when its callback runs
TimeoutFires(s, callback) ==
    [s EXCEPT !.timeouts = @ (-) SetToBag({callback})]

AddTask(s, t) == [s EXCEPT !.tasks = @ (+) SetToBag({t})]

EndTask(s, t) == [s EXCEPT !.tasks = @ (-) SetToBag({t})]

MoveTask(s, t, u) == AddTask(EndTask(s, t), u)

\* if (countdownIntervalRef.current) { clearInterval(...); ... = null }
ClearCountdownInterval(s) ==
    IF s.countdownIntervalRef = Null THEN s
    ELSE [s EXCEPT
            !.intervals = { iv \in @ : iv.id # s.countdownIntervalRef[1] },
            !.countdownIntervalRef = Null]

\* countdownIntervalRef.current = setInterval(..., 1000), with let count = from
StartInterval(s, kind, from) ==
    LET id == CHOOSE n \in 1..(Cardinality(s.intervals) + 1) :
                  /\ \A iv \in s.intervals : iv.id # n
                  /\ \A m \in 1..(n - 1) : \E iv \in s.intervals : iv.id = m
    IN  [s EXCEPT
           !.intervals = @ \cup {[id |-> id, kind |-> kind, count |-> from]},
           !.countdownIntervalRef = Some(id)]

\* the interval iv has ticked: its count is one less (all counts below 0 act alike)
Ticked(s, iv) ==
    [s EXCEPT !.intervals =
        (@ \ {iv}) \cup {[iv EXCEPT !.count = Max(iv.count - 1, 0 - 1)]}]

\* soundRef.current = newSound, a sound created with shouldPlay: true; the
\* sound soundRef referred to is no longer referred to
NewSoundPlaying(s) ==
    [s EXCEPT !.soundRef = "playing",
              !.orphans = IF s.soundRef = "playing" THEN @ + 1 ELSE @]

\* startGameCountdown()
startGameCountdown(s) ==
    StartInterval([ClearCountdownInterval(s) EXCEPT !.countdown = Some(GameCountdownFrom)],
                  "game", GameCountdownFrom)

\* startPersonDetection(), up to its first await
startPersonDetection(s) ==
    IF ~s.cameraRef THEN s
    ELSE IF ~s.modelSession
         THEN [s EXCEPT !.detectionCanceledRef = FALSE, !.isDetecting = FALSE]
         ELSE AddTask([s EXCEPT !.detectionCanceledRef = FALSE, !.isDetecting = TRUE],
                      Task("startPersonDetection", "takePictureAsync", Null))

\* resetGame()
resetGame(s) ==
    clearAllTimeouts(
        [s EXCEPT !.isActive = FALSE, !.showNumberSelector = FALSE,
                  !.countdown = Null, !.gameOver = FALSE,
                  !.gameOverCountdown = Null, !.showNotEnoughPlayersError = FALSE,
                  !.selectedNumber = 0, !.winnerDetectionResult = Null,
                  !.isDetectingWinner = FALSE])

\* handleStartCancel()
handleStartCancel(s) ==
    IF s.isActive
    THEN ClearCountdownInterval(clearAllTimeouts(
           [s EXCEPT !.showWarning = FALSE,
                     !.detectionCanceledRef = IF s.isDetecting THEN TRUE ELSE @,
                     !.isDetecting = FALSE,
                     !.countdown = Null,
                     !.soundRef = "none",
                     !.isActive = FALSE,
                     !.showNumberSelector = FALSE,
                     !.gameOver = FALSE,
                     !.gameOverCountdown = Null,
                     !.showNotEnoughPlayersError = FALSE,
                     !.selectedNumber = 0,
                     !.winnerDetectionResult = Null,
                     !.isDetectingWinner = FALSE]))
    ELSE startPersonDetection([s EXCEPT !.isActive = TRUE])

\* variant: one player is enough
handleYesDetection_onePlayer(s) ==
    IF s.detectedPersonCount # Null /\ s.detectedPersonCount[1] < 1
    THEN [s EXCEPT !.showPersonDetectionPrompt = FALSE,
                   !.showNotEnoughPlayersError = TRUE,
                   !.rawTimeouts = @ (+) SetToBag({[callback |-> "resetGame", age |-> 0]})]
    ELSE LET chairCount == Max(0, s.detectedPersonCount[1] - 1)
             counted == IF s.detectedPersonCount = Null THEN s
                        ELSE [s EXCEPT !.selectedNumber = chairCount,
                                       !.previousChairCount = chairCount]
         IN  startGameCountdown([counted EXCEPT !.showPersonDetectionPrompt = FALSE])

\* handleYesDetection()
handleYesDetection(s) ==
    IF s.detectedPersonCount # Null /\ s.detectedPersonCount[1] < 2
    THEN [s EXCEPT !.showPersonDetectionPrompt = FALSE,
                   !.showNotEnoughPlayersError = TRUE,
                   !.rawTimeouts = @ (+) SetToBag({[callback |-> "resetGame", age |-> 0]})]
    ELSE LET chairCount == Max(0, s.detectedPersonCount[1] - 1)
             counted == IF s.detectedPersonCount = Null THEN s
                        ELSE [s EXCEPT !.selectedNumber = chairCount,
                                       !.previousChairCount = chairCount]
         IN  startGameCountdown([counted EXCEPT !.showPersonDetectionPrompt = FALSE])

\* handleEnterManually()
handleEnterManually(s) ==
    LET counted == IF s.detectedPersonCount = Null THEN s
                   ELSE [s EXCEPT !.selectedNumber = s.detectedPersonCount[1],
                                  !.previousChairCount = s.detectedPersonCount[1]]
    IN  [counted EXCEPT !.showPersonDetectionPrompt = FALSE,
                        !.showNumberSelector = TRUE]

\* handleRetryDetection()
handleRetryDetection(s) ==
    startPersonDetection([s EXCEPT !.showPersonDetectionPrompt = FALSE])

\* onPress of a number of the selector
PressNumber(s, number) ==
    startGameCountdown([s EXCEPT !.selectedNumber = number,
                                 !.previousChairCount = number,
                                 !.showNumberSelector = FALSE])

\* restartGameWithSameChairs()
restartGameWithSameChairs(s) ==
    startGameCountdown([s EXCEPT !.gameOver = FALSE,
                                 !.selectedNumber = s.previousChairCount,
                                 !.isActive = TRUE])

\* startSettleCountdown()
startSettleCountdown(s) ==
    StartInterval([ClearCountdownInterval(s) EXCEPT !.countdown = Some(SettleCountdownFrom)],
                  "settle", SettleCountdownFrom)

\* startGameOverCountdown()
startGameOverCountdown(s) ==
    StartInterval([ClearCountdownInterval(s) EXCEPT
                      !.gameOverCountdown = Some(GameOverCountdownFrom)],
                  "gameOver", GameOverCountdownFrom)

\* the settle countdown has gone below 0: the callback of its last tick
SettleEnded(s) ==
    LET newCount == s.selectedNumber - 1
        cleared == [ClearCountdownInterval(s) EXCEPT
                      !.countdown = Null, !.isDetecting = FALSE,
                      !.selectedNumber = newCount]
    IN  IF newCount < 1
        THEN setManagedTimeout(
                 clearAllTimeouts(
                     [cleared EXCEPT !.gameOver = TRUE,
                                     !.soundRef = IF @ \in {"none", "unloaded"} THEN @ ELSE "stopped"]),
                 "detectGameWinner")
        ELSE AddTask([cleared EXCEPT !.showWarning = TRUE],
                     Task("warning", "createAsync", Null))

\* the game countdown has gone below 0: playSound is called
GameCountdownEnded(s) ==
    AddTask([ClearCountdownInterval(s) EXCEPT !.countdown = Null,
                                              !.playbackPositionRef = 0],
            Task("playSound", "setAudioModeAsync", Null))

\* the restart countdown has gone below 0
GameOverCountdownEnded(s) ==
    restartGameWithSameChairs(
        [ClearCountdownInterval(s) EXCEPT !.gameOverCountdown = Null])

\* detectGameWinner(), up to its await of detectWinner
detectGameWinner(s) ==
    IF ~s.cameraRef \/ ~s.modelSession
    THEN setManagedTimeout(s, "startGameOverCountdown")
    ELSE AddTask([s EXCEPT !.isDetectingWinner = TRUE],
                 Task("detectGameWinner", "detectWinner", Null))

\* detectGameWinner() after detectWinner has returned winnerResult
WinnerDetected(s, winnerResult) ==
    setManagedTimeout([s EXCEPT !.winnerDetectionResult = Some(winnerResult),
                                !.isDetectingWinner = FALSE],
                      "startGameOverCountdown")

GameInit ==
    /\ NotRunning
    /\ call = NoCall
    /\ screen = MountedScreen

\* the rest of the program's state is not touched by the screen
GameFrame == UNCHANGED <<DetectWinnerVars, call>>

\* handleBack(): the reset after the sound is gone, up to await lockAsync
handleBackReset(s) ==
    ClearCountdownInterval(clearAllTimeouts(
        [s EXCEPT !.playbackPositionRef = 0,
                  !.isActive = FALSE,
                  !.showNumberSelector = FALSE,
                  !.countdown = Null,
                  !.gameOver = FALSE,
                  !.selectedNumber = 0]))

\* handleBack(), up to its first await (stopAsync rejects on an unloaded sound)
handleBack(s) ==
    IF s.soundRef = "none"
    THEN AddTask(handleBackReset(s), Task("handleBack", "lockAsync", Null))
    ELSE IF s.soundRef = "unloaded" THEN s
    ELSE AddTask([s EXCEPT !.soundRef = "stopped"], Task("handleBack", "stopAsync", Null))

\* the screen is left and the component unmounted: the cleanup of
\* useFocusEffect stops and unloads the sound and clears the interval, the
\* cleanup of useTimeoutManager clears the managed timeouts, and the ref of
\* the camera view is null
Unmounted(s) ==
    IF ~s.mounted THEN s
    ELSE [ClearCountdownInterval(clearAllTimeouts(s)) EXCEPT
             !.soundRef = "none", !.cameraRef = FALSE, !.mounted = FALSE]

\* the confirmation prompt (a modal) is on top of the screen
PromptVisible == screen.showPersonDetectionPrompt /\ ~screen.isDetecting

\* the user can press a button of the screen
CanPress ==
    /\ screen.mounted
    /\ screen.cameraRef
    /\ screen.userActions < MaxUserActions
    /\ ~PromptVisible

\* the user can press a button of the prompt
CanAnswer ==
    /\ screen.mounted
    /\ screen.cameraRef
    /\ screen.userActions < MaxUserActions
    /\ PromptVisible

Pressed(s) == [s EXCEPT !.userActions = @ + 1]

\* the fields of the React state
Frozen(c, s) ==
    [s EXCEPT !.modelSession = c.modelSession,
              !.showIntroVideo = c.showIntroVideo,
              !.granted = c.granted,
              !.isActive = c.isActive,
              !.isDetecting = c.isDetecting,
              !.detectedPersonCount = c.detectedPersonCount,
              !.showPersonDetectionPrompt = c.showPersonDetectionPrompt,
              !.showNumberSelector = c.showNumberSelector,
              !.showNotEnoughPlayersError = c.showNotEnoughPlayersError,
              !.selectedNumber = c.selectedNumber,
              !.countdown = c.countdown,
              !.gameOverCountdown = c.gameOverCountdown,
              !.gameOver = c.gameOver,
              !.showWarning = c.showWarning,
              !.winnerDetectionResult = c.winnerDetectionResult,
              !.isDetectingWinner = c.isDetectingWinner]

\* a component the screen was left with has something to go on with: an async
\* function suspended in an await, a timer, an interval, or a sound that plays
AtWork(c) ==
    \/ c.tasks # EmptyBag
    \/ c.timeouts # EmptyBag
    \/ c.rawTimeouts # EmptyBag
    \/ c.intervals # {}
    \/ c.soundRef = "playing"
    \/ c.orphans > 0

StillAtWork(components) == SelectSeq(components, AtWork)

\* the component a step is of: 0 is the component in front, w above 0 the
\* w-th of the components that were left before it, which reads the module
\* variable previousChairCount as it is now
Component(w) ==
    IF w = 0 THEN screen
    ELSE [screen.earlier[w] EXCEPT !.previousChairCount = screen.previousChairCount]

\* the step of the component w gives s; the setters of an unmounted component
\* change nothing
StepOf(w, s) ==
    LET c == Component(w)
        after == IF c.mounted THEN s ELSE Frozen(c, s)
    IN  /\ screen' = IF w = 0 THEN after
                     ELSE [screen EXCEPT !.earlier = StillAtWork([@ EXCEPT ![w] = after])]
        /\ GameFrame

\* a step of a handler of the component in front
Does(s) == screen' = IF screen.mounted THEN s ELSE Frozen(screen, s)

\* a timer of 3000 ms set with setTimeout sees at most 3 ticks of a countdown
RawTimer(callback, age) == [callback |-> callback, age |-> age]

NoRawTimerDue(c) == \A t \in BagToSet(c.rawTimeouts) : t.age < 3

Aged(s) ==
    [s EXCEPT !.rawTimeouts =
        LET old == BagToSet(s.rawTimeouts)
        IN  [t \in { RawTimer(u.callback, u.age + 1) : u \in old } |->
                s.rawTimeouts[RawTimer(t.callback, t.age - 1)]]]

\* a run of startPersonDetection that was in flight when handleStartCancel set
\* detectionCanceledRef keeps its place in the code and is told apart by name
CancelledRun == "startPersonDetection, cancelled"

DetectionRuns == {"startPersonDetection", CancelledRun}

MarkCancelled(t) ==
    IF t.fn = "startPersonDetection" THEN [t EXCEPT !.fn = CancelledRun] ELSE t

WithCancelledRuns(s) ==
    [s EXCEPT !.tasks =
        LET old == BagToSet(s.tasks)
        IN  [u \in { MarkCancelled(t) : t \in old } |->
                (IF u \in old THEN s.tasks[u] ELSE 0)
                + (IF u.fn = CancelledRun /\ [u EXCEPT !.fn = "startPersonDetection"] \in old
                   THEN s.tasks[[u EXCEPT !.fn = "startPersonDetection"]] ELSE 0)]]

\* initModel: loadYoloModel resolves with a session
ModelLoaded ==
    /\ screen.mounted
    /\ ~screen.modelSession
    /\ Does([screen EXCEPT !.modelSession = TRUE])
    /\ GameFrame

\* the intro video has finished: the screen is rendered, with the camera view
\* if the permission is granted
IntroVideoFinished ==
    /\ screen.mounted
    /\ screen.showIntroVideo
    /\ Does([screen EXCEPT !.showIntroVideo = FALSE, !.cameraRef = screen.granted])
    /\ GameFrame

\* the camera permission is granted: the camera view and the buttons are
\* rendered unless the intro video plays
CameraMounts ==
    /\ screen.mounted
    /\ ~screen.granted
    /\ Does([screen EXCEPT !.granted = TRUE, !.cameraRef = ~screen.showIntroVideo])
    /\ GameFrame

\* the camera permission is withdrawn: the permission view replaces the
\* screen, the camera view is unmounted
CameraUnmounts ==
    /\ screen.mounted
    /\ screen.granted
    /\ Does([screen EXCEPT !.granted = FALSE, !.cameraRef = FALSE])
    /\ GameFrame

\* the user presses the start/cancel button
PressStartCancel ==
    /\ CanPress
    /\ LET s == handleStartCancel(Pressed(screen))
           cancelsRun == screen.isActive /\ screen.isDetecting
       IN  Does([(IF cancelsRun THEN WithCancelledRuns(s) ELSE s)
                         EXCEPT !.cancelled = screen.isActive,
                                !.published = IF screen.isActive THEN @ ELSE 0])
    /\ GameFrame

\* startPersonDetection: takePictureAsync resolves, runLocalInference is called
TakePictureResolves(w) ==
    LET c == Component(w)
    IN  \E fn \in DetectionRuns :
          LET t == Task(fn, "takePictureAsync", Null)
          IN  /\ BagIn(t, c.tasks)
              /\ StepOf(w, MoveTask(c, t, Task(fn, "runLocalInference", Null)))

\* startPersonDetection: takePictureAsync rejects, the frame has no count
TakePictureRejects(w) ==
    LET c == Component(w)
    IN  \E fn \in DetectionRuns :
          LET t == Task(fn, "takePictureAsync", Null)
          IN  /\ BagIn(t, c.tasks)
              /\ StepOf(w, MoveTask(c, t, Task(fn, "delay", Null)))

\* startPersonDetection: runLocalInference resolves with a person count
InferenceResolves(w) ==
    LET c == Component(w)
    IN  \E fn \in DetectionRuns :
          LET t == Task(fn, "runLocalInference", Null)
          IN  /\ BagIn(t, c.tasks)
              /\ \E personCount \in PersonCounts :
                   StepOf(w, MoveTask(c, t, Task(fn, "delay", Some(personCount))))

\* startPersonDetection: runLocalInference rejects, the frame has no count
InferenceRejects(w) ==
    LET c == Component(w)
    IN  \E fn \in DetectionRuns :
          LET t == Task(fn, "runLocalInference", Null)
          IN  /\ BagIn(t, c.tasks)
              /\ StepOf(w, MoveTask(c, t, Task(fn, "delay", Null)))

\* startPersonDetection: the delay after the frame has elapsed; unless
\* detectionCanceledRef is set the most frequent count is published and the
\* prompt opens
DetectionPublishes(w) ==
    LET c == Component(w)
    IN  \E fn \in DetectionRuns, data \in {Null} \cup { Some(n) : n \in PersonCounts } :
          LET t == Task(fn, "delay", data)
          IN  /\ BagIn(t, c.tasks)
              /\ StepOf(w, IF c.detectionCanceledRef
                   THEN [EndTask(c, t) EXCEPT !.isDetecting = FALSE]
                   ELSE [EndTask(c, t) EXCEPT !.detectedPersonCount = data,
                                                   !.isDetecting = FALSE,
                                                   !.showPersonDetectionPrompt = TRUE,
                                                   !.published = @ + 1])

\* the user presses Yes in the prompt
PressYes ==
    /\ CanAnswer
    /\ LET s == handleYesDetection(Pressed(screen))
           tooFew == /\ screen.detectedPersonCount # Null
                     /\ screen.detectedPersonCount[1] < 2
       IN  Does(IF tooFew
                THEN [s EXCEPT !.dueFirst = IF screen.rawTimeouts = EmptyBag
                                            THEN CopiesIn("randomStop", s.timeouts)
                                            ELSE @]
                     ELSE [s EXCEPT !.startedWith = s.selectedNumber,
                                    !.staleResult = s.winnerDetectionResult # Null])
    /\ GameFrame

\* the prompt is asked to close (the back button of the device)
PromptRequestClose ==
    /\ CanAnswer
    /\ Does([Pressed(screen) EXCEPT !.showPersonDetectionPrompt = FALSE])
    /\ GameFrame

\* the user presses Enter Manually in the prompt
PressEnterManually ==
    /\ CanAnswer
    /\ Does(handleEnterManually(Pressed(screen)))
    /\ GameFrame

\* the user presses Retry in the prompt
PressRetry ==
    /\ CanAnswer
    /\ Does([handleRetryDetection(Pressed(screen)) EXCEPT !.published = 0])
    /\ GameFrame

\* the user scrolls the number selector to a number
ScrollToNumber ==
    /\ CanPress
    /\ screen.isActive /\ screen.showNumberSelector
    /\ \E number \in SelectableNumbers :
         Does([Pressed(screen) EXCEPT !.selectedNumber = number,
                                           !.previousChairCount = number])
    /\ GameFrame

\* the user presses a number of the number selector
PressSelectorNumber ==
    /\ CanPress
    /\ screen.isActive /\ screen.showNumberSelector
    /\ \E number \in SelectableNumbers :
         Does([PressNumber(Pressed(screen), number) EXCEPT
                       !.startedWith = number,
                       !.staleResult = screen.winnerDetectionResult # Null])
    /\ GameFrame

\* the 3 seconds of the not-enough-players error are over
NotEnoughPlayersTimerFires(w) ==
    LET c == Component(w)
    IN  /\ \E t \in BagToSet(c.rawTimeouts) :
             /\ t.callback = "resetGame"
             /\ StepOf(w, resetGame(
                    [c EXCEPT !.rawTimeouts = @ (-) SetToBag({t}),
                                   !.showNotEnoughPlayersError = FALSE]))

\* a tick of the game countdown that does not end it
GameCountdownTick(w) ==
    LET c == Component(w)
    IN  /\ NoRawTimerDue(c)
        /\ \E iv \in c.intervals :
             /\ iv.kind = "game"
             /\ iv.count - 1 >= 0
             /\ StepOf(w, [Aged(Ticked(c, iv)) EXCEPT !.countdown = Some(iv.count - 1)])

\* the tick that takes the game countdown below 0: the music starts
GameCountdownEnds(w) ==
    LET c == Component(w)
    IN  /\ NoRawTimerDue(c)
        /\ \E iv \in c.intervals :
             /\ iv.kind = "game"
             /\ iv.count - 1 < 0
             /\ StepOf(w, GameCountdownEnded(Aged(Ticked(c, iv))))

\* playSound: setAudioModeAsync resolves; the sound is resumed or created
\* (playAsync rejects on an unloaded sound and playSound ends in its catch)
PlaySoundAudioModeSet(w) ==
    LET c == Component(w)
        t == Task("playSound", "setAudioModeAsync", Null)
    IN  /\ BagIn(t, c.tasks)
        /\ StepOf(w, IF c.soundRef = "none"
                THEN MoveTask(c, t, Task("playSound", "createAsync", Null))
                ELSE IF c.soundRef = "unloaded" THEN EndTask(c, t)
                ELSE MoveTask([c EXCEPT !.soundRef = "playing"], t,
                              Task("playSound", "playAsync", Null)))

\* playSound: playAsync resolves; the next random stop is scheduled
PlaySoundResumed(w) ==
    LET c == Component(w)
        t == Task("playSound", "playAsync", Null)
    IN  /\ BagIn(t, c.tasks)
        /\ StepOf(w, setManagedTimeout(EndTask(c, t), "randomStop"))

\* playSound: createAsync resolves with a sound that plays; with a saved
\* position setStatusAsync is awaited first; then the sound is stored in
\* soundRef and the next random stop is scheduled
PlaySoundCreated(w) ==
    LET c == Component(w)
    IN  \E await \in {"createAsync", "setStatusAsync"} :
          LET t == Task("playSound", await, Null)
          IN  /\ BagIn(t, c.tasks)
              /\ StepOf(w, IF await = "createAsync" /\ c.playbackPositionRef > 0
                      THEN MoveTask([c EXCEPT !.orphans = @ + 1], t,
                                    Task("playSound", "setStatusAsync", Null))
                      ELSE setManagedTimeout(
                               NewSoundPlaying(
                                   [EndTask(c, t) EXCEPT
                                       !.orphans = IF await = "setStatusAsync"
                                                   THEN @ - 1 ELSE @]),
                               "randomStop"))

\* the statuses getStatusAsync can give for the sound soundRef refers to:
\* Null for a sound that is not loaded, else its position, which is 0 for a
\* stopped sound and 0 (a sound just created) or above for any other
StatusPositions(s) ==
    IF s.soundRef = "unloaded" THEN {Null}
    ELSE IF s.soundRef \in {"playing", "paused"} THEN {Some(0), Some(1)}
    ELSE {Some(0)}

\* the random stop is due (10 to 20 seconds after it was scheduled): not
\* before a pending timer of 3000 ms unless it was scheduled before that one
RandomStopFires(w) ==
    LET c == Component(w)
    IN  /\ BagIn("randomStop", c.timeouts)
        /\ c.rawTimeouts = EmptyBag \/ c.dueFirst > 0
        /\ LET s == [TimeoutFires(c, "randomStop") EXCEPT !.dueFirst = Max(0, @ - 1)]
           IN  \E position \in StatusPositions(s) :
                 StepOf(w, IF s.soundRef # "none"
                      THEN AddTask(s, Task("randomStop", "getStatusAsync", position))
                      ELSE setManagedTimeout(s, "startSettleCountdown"))

\* randomStop: getStatusAsync resolves; the position of a loaded sound is
\* saved and pauseAsync is called on soundRef.current (a TypeError ends
\* randomStop when soundRef.current is null by now, a rejection when the sound
\* is unloaded)
RandomStopGotStatus(w) ==
    LET c == Component(w)
    IN  \E position \in {Null, Some(0), Some(1)} :
          LET t == Task("randomStop", "getStatusAsync", position)
              s == IF position = Null THEN c
                   ELSE [c EXCEPT !.playbackPositionRef = position[1]]
          IN  /\ BagIn(t, c.tasks)
              /\ StepOf(w, IF s.soundRef \in {"none", "unloaded"} THEN EndTask(s, t)
                      ELSE MoveTask([s EXCEPT !.soundRef =
                                         IF @ = "playing" THEN "paused" ELSE @],
                                    t, Task("randomStop", "pauseAsync", Null)))

\* randomStop: pauseAsync resolves; the settle countdown is scheduled
RandomStopPaused(w) ==
    LET c == Component(w)
        t == Task("randomStop", "pauseAsync", Null)
    IN  /\ BagIn(t, c.tasks)
        /\ StepOf(w, setManagedTimeout(EndTask(c, t), "startSettleCountdown"))

\* the 500 ms after the pause are over: the settle countdown starts
SettleCountdownStarts(w) ==
    LET c == Component(w)
    IN  /\ BagIn("startSettleCountdown", c.timeouts)
        /\ StepOf(w, startSettleCountdown(TimeoutFires(c, "startSettleCountdown")))

\* a tick of the settle countdown that does not end it
SettleCountdownTick(w) ==
    LET c == Component(w)
    IN  /\ NoRawTimerDue(c)
        /\ \E iv \in c.intervals :
             /\ iv.kind = "settle"
             /\ iv.count - 1 >= 0
             /\ StepOf(w, [Aged(Ticked(c, iv)) EXCEPT !.countdown = Some(iv.count - 1)])

\* the tick that takes the settle countdown below 0: a chair is removed (the
\* updater passed to setSelectedNumber does this; whether React calls the
\* updater of an unmounted component is not defined)
SettleCountdownEnds(w) ==
    LET c == Component(w)
    IN  /\ NoRawTimerDue(c)
        /\ \E iv \in c.intervals :
             /\ iv.kind = "settle"
             /\ iv.count - 1 < 0
             /\ \E updaterRuns \in IF c.mounted THEN {TRUE} ELSE BOOLEAN :
                  StepOf(w, IF updaterRuns THEN SettleEnded(Aged(Ticked(c, iv)))
                       ELSE ClearCountdownInterval(Aged(Ticked(c, iv))))

\* the warning sequence: createAsync resolves, the warning sound plays
WarningCreated(w) ==
    LET c == Component(w)
        t == Task("warning", "createAsync", Null)
    IN  /\ BagIn(t, c.tasks)
        /\ StepOf(w, MoveTask(c, t, Task("warning", "waitForSoundToFinish", Null)))

\* the warning sequence: the warning sound has finished, it is unloaded
WarningFinished(w) ==
    LET c == Component(w)
        t == Task("warning", "waitForSoundToFinish", Null)
    IN  /\ BagIn(t, c.tasks)
        /\ StepOf(w, MoveTask(c, t, Task("warning", "unloadAsync", Null)))

\* the warning sequence: unloadAsync resolves; the status of the music is asked for
WarningUnloaded(w) ==
    LET c == Component(w)
        t == Task("warning", "unloadAsync", Null)
    IN  /\ BagIn(t, c.tasks)
        /\ StepOf(w, IF c.soundRef = "none"
             THEN [EndTask(c, t) EXCEPT !.showWarning = FALSE]
             ELSE [MoveTask(c, t,
                            Task("warning", "getStatusAsync",
                                 Some(IF c.soundRef \in {"playing", "unloaded"}
                                      THEN 1 ELSE 0)))
                     EXCEPT !.showWarning = FALSE])

\* the warning sequence: getStatusAsync resolves (0: the sound was loaded and
\* not playing); such a music is resumed (a TypeError ends the sequence when
\* soundRef.current is null by now, a rejection when the sound is unloaded)
WarningGotStatus(w) ==
    LET c == Component(w)
    IN  \E isPlaying \in {0, 1} :
          LET t == Task("warning", "getStatusAsync", Some(isPlaying))
          IN  /\ BagIn(t, c.tasks)
              /\ StepOf(w, IF isPlaying = 1 \/ c.soundRef \in {"none", "unloaded"}
                      THEN EndTask(c, t)
                   ELSE MoveTask([c EXCEPT !.soundRef = "playing"], t,
                                 Task("warning", "playAsync", Null)))

\* the warning sequence: playAsync resolves; the next random stop is scheduled
WarningResumed(w) ==
    LET c == Component(w)
        t == Task("warning", "playAsync", Null)
    IN  /\ BagIn(t, c.tasks)
        /\ StepOf(w, setManagedTimeout(EndTask(c, t), "randomStop"))

\* the second after the game ended is over: detectGameWinner runs
DetectGameWinnerStarts(w) ==
    LET c == Component(w)
    IN  /\ BagIn("detectGameWinner", c.timeouts)
        /\ StepOf(w, detectGameWinner(TimeoutFires(c, "detectGameWinner")))

\* detectGameWinner: detectWinner returns its result
DetectWinnerReturns(w) ==
    LET c == Component(w)
        t == Task("detectGameWinner", "detectWinner", Null)
    IN  /\ BagIn(t, c.tasks)
        /\ \E success \in BOOLEAN :
             StepOf(w, [WinnerDetected(EndTask(c, t), [success |-> success])
                          EXCEPT !.staleResult = FALSE])

\* the timer detectGameWinner has set is due: the restart countdown starts
GameOverCountdownStarts(w) ==
    LET c == Component(w)
    IN  /\ BagIn("startGameOverCountdown", c.timeouts)
        /\ StepOf(w, startGameOverCountdown(TimeoutFires(c, "startGameOverCountdown")))

\* a tick of the restart countdown that does not end it
GameOverCountdownTick(w) ==
    LET c == Component(w)
    IN  /\ NoRawTimerDue(c)
        /\ \E iv \in c.intervals :
             /\ iv.kind = "gameOver"
             /\ iv.count - 1 >= 0
             /\ StepOf(w, [Aged(Ticked(c, iv)) EXCEPT
                              !.gameOverCountdown = Some(iv.count - 1)])

\* the tick that takes the restart countdown below 0: the game restarts
GameOverCountdownEnds(w) ==
    LET c == Component(w)
    IN  /\ NoRawTimerDue(c)
        /\ \E iv \in c.intervals :
             /\ iv.kind = "gameOver"
             /\ iv.count - 1 < 0
             /\ LET s == GameOverCountdownEnded(Aged(Ticked(c, iv)))
                IN  StepOf(w, [s EXCEPT !.startedWith = s.selectedNumber,
                                        !.staleResult = s.winnerDetectionResult # Null])

\* the user presses the song button while a sound is loaded
PressChangeSong ==
    /\ CanPress
    /\ screen.soundRef # "none"
    /\ Does(AddTask([Pressed(screen) EXCEPT !.soundRef = "none",
                                           !.playbackPositionRef = 0],
                         Task("changeSong", "createAsync", Null)))
    /\ GameFrame

\* changeSong: createAsync resolves with a sound that plays
ChangeSongCreated(w) ==
    LET c == Component(w)
        t == Task("changeSong", "createAsync", Null)
    IN  /\ BagIn(t, c.tasks)
        /\ StepOf(w, NewSoundPlaying(EndTask(c, t)))

\* the user presses the back button
PressBack ==
    /\ CanPress
    /\ Does(handleBack(Pressed(screen)))
    /\ GameFrame

\* handleBack: stopAsync resolves; unloadAsync is called on soundRef.current
\* (a TypeError that ends handleBack when soundRef.current is null by now)
BackStopped(w) ==
    LET c == Component(w)
        t == Task("handleBack", "stopAsync", Null)
    IN  /\ BagIn(t, c.tasks)
        /\ StepOf(w, IF c.soundRef = "none" THEN EndTask(c, t)
                ELSE MoveTask([c EXCEPT !.soundRef = "unloaded"], t,
                              Task("handleBack", "unloadAsync", Null)))

\* handleBack: unloadAsync resolves; soundRef.current = null, the game is
\* reset and the orientation lock is awaited
BackUnloaded(w) ==
    LET c == Component(w)
        t == Task("handleBack", "unloadAsync", Null)
    IN  /\ BagIn(t, c.tasks)
        /\ StepOf(w, MoveTask(
                    handleBackReset(
                        [c EXCEPT !.soundRef = "none",
                                       !.orphans = IF c.soundRef = "playing"
                                                   THEN @ + 1 ELSE @]),
                    t, Task("handleBack", "lockAsync", Null)))

\* handleBack: lockAsync resolves; router.replace("/") leaves the screen
BackLocked(w) ==
    LET c == Component(w)
        t == Task("handleBack", "lockAsync", Null)
    IN  /\ BagIn(t, c.tasks)
        /\ screen' = IF w = 0 THEN Unmounted(EndTask(c, t))
                     ELSE [Unmounted(screen) EXCEPT
                              !.earlier = StillAtWork([@ EXCEPT ![w] = EndTask(c, t)])]
        /\ GameFrame

\* the screen loses the focus without the back button of the screen (the user
\* navigates back with the device)
ScreenLosesFocus ==
    /\ screen.mounted
    /\ Does(Unmounted(screen))
    /\ GameFrame

\* the screen as the home screen pushes it again: a new component, with the
\* module variable previousChairCount as the game before left it.  Nothing
\* cancels what the components before it have in flight: they are kept in
\* `earlier' and go on beside the new one
MountedAgain(s) ==
    [MountedScreen EXCEPT
        !.previousChairCount = s.previousChairCount,
        !.userActions = s.userActions + 1,
        !.earlier = StillAtWork(Append(s.earlier,
                                       [s EXCEPT !.earlier = <<>>, !.userActions = 0]))]

\* the user presses the button of the home screen after the screen was left
HomePushesScreen ==
    /\ ~screen.mounted
    /\ screen.userActions < MaxUserActions
    /\ screen' = MountedAgain(screen)
    /\ GameFrame

\* a step of a component that was left while the screen is mounted again: its
\* timers fire, its intervals tick and its awaited calls return as they do for
\* the component in front; it reads the module variable previousChairCount as
\* it is now, and the router.replace("/") of its handleBack leaves the screen
\* that is in front
EarlierScreenSteps ==
    /\ screen.earlier # <<>>
    /\ \E w \in 1..Len(screen.earlier) :
         \/ TakePictureResolves(w)
         \/ TakePictureRejects(w)
         \/ InferenceResolves(w)
         \/ InferenceRejects(w)
         \/ DetectionPublishes(w)
         \/ NotEnoughPlayersTimerFires(w)
         \/ GameCountdownTick(w)
         \/ GameCountdownEnds(w)
         \/ PlaySoundAudioModeSet(w)
         \/ PlaySoundResumed(w)
         \/ PlaySoundCreated(w)
         \/ RandomStopFires(w)
         \/ RandomStopGotStatus(w)
         \/ RandomStopPaused(w)
         \/ SettleCountdownStarts(w)
         \/ SettleCountdownTick(w)
         \/ SettleCountdownEnds(w)
         \/ WarningCreated(w)
         \/ WarningFinished(w)
         \/ WarningUnloaded(w)
         \/ WarningGotStatus(w)
         \/ WarningResumed(w)
         \/ DetectGameWinnerStarts(w)
         \/ DetectWinnerReturns(w)
         \/ GameOverCountdownStarts(w)
         \/ GameOverCountdownTick(w)
         \/ GameOverCountdownEnds(w)
         \/ ChangeSongCreated(w)
         \/ BackStopped(w)
         \/ BackUnloaded(w)
         \/ BackLocked(w)

\* what the user does
UserAction ==
    \/ PressStartCancel
    \/ PressYes
    \/ PressEnterManually
    \/ PressRetry
    \/ ScrollToNumber
    \/ PressSelectorNumber
    \/ PressChangeSong
    \/ PressBack
    \/ PromptRequestClose
    \/ HomePushesScreen

GameNext ==
    \/ UserAction
    \/ ScreenLosesFocus
    \/ ModelLoaded
    \/ IntroVideoFinished
    \/ CameraMounts
    \/ CameraUnmounts
    \/ TakePictureResolves(0)
    \/ TakePictureRejects(0)
    \/ InferenceResolves(0)
    \/ InferenceRejects(0)
    \/ DetectionPublishes(0)
    \/ NotEnoughPlayersTimerFires(0)
    \/ GameCountdownTick(0)
    \/ GameCountdownEnds(0)
    \/ PlaySoundAudioModeSet(0)
    \/ PlaySoundResumed(0)
    \/ PlaySoundCreated(0)
    \/ RandomStopFires(0)
    \/ RandomStopGotStatus(0)
    \/ RandomStopPaused(0)
    \/ SettleCountdownStarts(0)
    \/ SettleCountdownTick(0)
    \/ SettleCountdownEnds(0)
    \/ WarningCreated(0)
    \/ WarningFinished(0)
    \/ WarningUnloaded(0)
    \/ WarningGotStatus(0)
    \/ WarningResumed(0)
    \/ DetectGameWinnerStarts(0)
    \/ DetectWinnerReturns(0)
    \/ GameOverCountdownStarts(0)
    \/ GameOverCountdownTick(0)
    \/ GameOverCountdownEnds(0)
    \/ ChangeSongCreated(0)
    \/ BackStopped(0)
    \/ BackUnloaded(0)
    \/ BackLocked(0)
    \/ EarlierScreenSteps

GameSpec == GameInit /\ [][GameNext]_vars

\* every timer fires, every interval ticks and every awaited call returns
GameFairness ==
    /\ WF_vars(TakePictureResolves(0) \/ TakePictureRejects(0))
    /\ WF_vars(InferenceResolves(0) \/ InferenceRejects(0))
    /\ WF_vars(DetectionPublishes(0))
    /\ WF_vars(NotEnoughPlayersTimerFires(0))
    /\ WF_vars(GameCountdownTick(0))
    /\ WF_vars(GameCountdownEnds(0))
    /\ WF_vars(PlaySoundAudioModeSet(0))
    /\ WF_vars(PlaySoundResumed(0))
    /\ WF_vars(PlaySoundCreated(0))
    /\ WF_vars(RandomStopFires(0))
    /\ WF_vars(RandomStopGotStatus(0))
    /\ WF_vars(RandomStopPaused(0))
    /\ WF_vars(SettleCountdownStarts(0))
    /\ WF_vars(SettleCountdownTick(0))
    /\ WF_vars(SettleCountdownEnds(0))
    /\ WF_vars(WarningCreated(0))
    /\ WF_vars(WarningFinished(0))
    /\ WF_vars(WarningUnloaded(0))
    /\ WF_vars(WarningGotStatus(0))
    /\ WF_vars(WarningResumed(0))
    /\ WF_vars(DetectGameWinnerStarts(0))
    /\ WF_vars(DetectWinnerReturns(0))
    /\ WF_vars(GameOverCountdownStarts(0))
    /\ WF_vars(GameOverCountdownTick(0))
    /\ WF_vars(GameOverCountdownEnds(0))
    /\ WF_vars(ChangeSongCreated(0))
    /\ WF_vars(BackStopped(0))
    /\ WF_vars(BackUnloaded(0))
    /\ WF_vars(BackLocked(0))
    /\ WF_vars(IntroVideoFinished)
    /\ WF_vars(EarlierScreenSteps)

GameFairSpec == GameSpec /\ GameFairness

\* The presses that MaxUserActions allows from the first mount of the screen
\* do not reach a game on a screen that is mounted again, nor a prompt that
\* opens while the error of too few players is shown.  The two states below
\* are reached from the first mount by the presses their comments list; the
\* exploration also starts from them, with presses left.

\* the component of a game that was left while its playSound awaited
\* setAudioModeAsync: Start, Yes on a count of 3 persons, the game countdown
\* run down, and then the screen left
LeftGame ==
    [MountedScreen EXCEPT
        !.mounted = FALSE, !.modelSession = TRUE, !.showIntroVideo = FALSE,
        !.granted = TRUE, !.isActive = TRUE, !.detectedPersonCount = Some(3),
        !.selectedNumber = 2, !.previousChairCount = 2, !.startedWith = 2,
        !.published = 1,
        !.tasks = SetToBag({Task("playSound", "setAudioModeAsync", Null)})]

\* the screen pushed again by the home screen beside that component, with two
\* presses left
PushedBesideGame ==
    [MountedScreen EXCEPT
        !.previousChairCount = 2,
        !.userActions = MaxUserActions - 2,
        !.earlier = <<LeftGame>>]

\* the error of too few players shown while an earlier person detection is
\* still in flight: Start, Cancel and Start again before the picture of the
\* first detection is taken, the second detection counts one person, Yes; one
\* press is left
ErrorBesideFirstRun ==
    [MountedScreen EXCEPT
        !.modelSession = TRUE, !.showIntroVideo = FALSE, !.granted = TRUE,
        !.cameraRef = TRUE, !.isActive = TRUE, !.detectedPersonCount = Some(1),
        !.showNotEnoughPlayersError = TRUE, !.selectedNumber = 0,
        !.rawTimeouts = SetToBag({RawTimer("resetGame", 0)}),
        !.tasks = SetToBag({Task(CancelledRun, "takePictureAsync", Null)}),
        !.published = 1,
        !.userActions = MaxUserActions - 1]

\* the screen as it is first mounted, or mounted again beside a game that was left
GameAgainInit ==
    /\ NotRunning
    /\ call = NoCall
    /\ screen \in {MountedScreen, PushedBesideGame}

GameAgainSpec == GameAgainInit /\ [][GameNext]_vars

\* the screen as it is first mounted, or showing the error of too few players
\* beside a person detection in flight
GameLateInit ==
    /\ NotRunning
    /\ call = NoCall
    /\ screen \in {MountedScreen, ErrorBesideFirstRun}

GameLateFairSpec == GameLateInit /\ [][GameNext]_vars /\ GameFairness

\* the two states as they are reached from the first mount of the screen: the
\* first with the presses that MaxUserActions allows, the second with one
\* press more
PushedBesideGameReached ==
    screen = [PushedBesideGame EXCEPT !.userActions = 3]

ErrorBesideFirstRunReached ==
    screen = [ErrorBesideFirstRun EXCEPT !.userActions = 4]

-----------------------------------------------------------------------------
(* The end of a settle countdown *)

WarningSequence == Task("warning", "createAsync", Null)

\* the number of pending timers that will call detectGameWinner
DetectionsScheduled(s) == CopiesIn("detectGameWinner", s.timeouts)

\* a step the user takes no part in
NoUserStep == screen.mounted /\ screen'.mounted /\ screen'.userActions = screen.userActions

\* what the last tick of a settle countdown does on the mounted screen
SettleEndStep ==
    (screen.mounted /\ SettleCountdownEnds(0)) =>
      /\ screen'.selectedNumber = screen.selectedNumber - 1
      /\ IF screen'.selectedNumber < 1
         THEN /\ screen'.gameOver
              /\ screen'.soundRef # "playing"
              /\ screen'.timeouts = SetToBag({"detectGameWinner"})
              /\ screen'.tasks = screen.tasks
         ELSE /\ screen'.gameOver = screen.gameOver
              /\ screen'.showWarning
              /\ screen'.tasks = screen.tasks (+) SetToBag({WarningSequence})
              /\ screen'.timeouts = screen.timeouts
              /\ DetectionsScheduled(screen') = 0

\* winner detection is scheduled by nothing but the end of a settle countdown
\* that leaves no chair, and starts only with no chair left
DetectionOnlyWithoutChairs ==
    /\ (NoUserStep /\ DetectionsScheduled(screen') > DetectionsScheduled(screen))
         => SettleCountdownEnds(0) /\ screen'.selectedNumber < 1
    /\ (screen.mounted /\ DetectGameWinnerStarts(0))
         => screen.gameOver /\ screen.selectedNumber < 1

\* while the game is over no step but a press of the user starts the music
NotResumedWhenOver ==
    (NoUserStep /\ screen.gameOver /\ screen'.gameOver)
      => (screen'.soundRef = "playing" => screen.soundRef = "playing")

\* while the game is over nothing but a song change starts the music
ResumedBySongChangeOnly ==
    ( /\ NoUserStep
      /\ screen.gameOver /\ screen'.gameOver
      /\ ~ChangeSongCreated(0) )
      => (screen'.soundRef = "playing" => screen.soundRef = "playing")

\* once the warning is shown the music plays again, unless the user cancels
\* the game or leaves first
WarningThenMusic ==
    (screen.mounted /\ screen.showWarning)
      ~> (~screen.mounted \/ ~screen.isActive \/ screen.soundRef = "playing")

\* C27: the end of a settle countdown takes exactly one chair away; winner
\* detection is scheduled only by an end that leaves less than one chair, and
\* then the music is stopped, every pending timer is dropped and the music is
\* not resumed while the game is over; an end that leaves one chair or more
\* shows the warning and starts the warning sequence, after which the music
\* plays again, and schedules no winner detection
C27_SettleCountdownEnd ==
    /\ [][SettleEndStep /\ DetectionOnlyWithoutChairs /\ NotResumedWhenOver]_vars
    /\ WarningThenMusic

\* C27, but for the music a song change starts: the createAsync of a
\* changeSong that was pending when the game ended is the one step that
\* starts music while the game is over
C27_ApartFromSongChange ==
    /\ [][SettleEndStep /\ DetectionOnlyWithoutChairs /\ ResumedBySongChangeOnly]_vars
    /\ WarningThenMusic

\* the game is over, winner detection is scheduled, and the music plays: the
\* song was changed during the last settle countdown and the new sound was
\* created after the countdown had ended the game
C27_MusicWhileGameOver ==
    /\ screen.mounted
    /\ screen.gameOver
    /\ screen.selectedNumber = 0
    /\ screen.soundRef = "playing"
    /\ DetectionsScheduled(screen) = 1

\* both outcomes have happened in one game: a round has ended with a chair
\* left and the warning sequence has resumed the music, and a later round has
\* ended the game with winner detection scheduled
C27_Witness ==
    /\ screen.mounted
    /\ screen.gameOver
    /\ screen.selectedNumber = 0
    /\ screen.startedWith = 2
    /\ screen.soundRef = "stopped"
    /\ DetectionsScheduled(screen) = 1

\* a round has ended with a chair left and the warning is being shown
C27_WitnessWarning ==
    /\ screen.mounted
    /\ screen.selectedNumber = 1
    /\ screen.startedWith = 2
    /\ screen.showWarning
    /\ BagIn(WarningSequence, screen.tasks)

-----------------------------------------------------------------------------
(* The restart after a game is over *)

\* a game that is over gets its restart countdown, unless the user cancels
\* (which ends the game-over state) or leaves first
RestartCountdownStarts ==
    (screen.mounted /\ screen.gameOver /\ screen.gameOverCountdown = Null)
      ~> \/ ~screen.mounted
         \/ ~screen.gameOver
         \/ /\ screen.gameOverCountdown = Some(GameOverCountdownFrom)
            /\ ~screen.isDetectingWinner

\* the end of the restart countdown starts a game
RestartStep ==
    (screen.mounted /\ GameOverCountdownEnds(0)) =>
      /\ ~screen'.gameOver
      /\ screen'.isActive
      /\ screen'.gameOverCountdown = Null
      /\ screen'.countdown = Some(GameCountdownFrom)

\* the game that starts has the chairs the finished game started with
SameChairsStep ==
    (screen.mounted /\ GameOverCountdownEnds(0))
      => screen'.selectedNumber = screen.startedWith

\* C28: a game that is over gets its restart countdown once winner detection
\* has returned, with or without a winner, unless the user cancels or leaves;
\* the end of that countdown starts a game with the number of chairs the
\* finished game started with
C28_RestartWithSameChairs ==
    /\ RestartCountdownStarts
    /\ [][RestartStep /\ SameChairsStep]_vars

\* C28, without the number of chairs: the restart countdown starts and its end
\* starts a game
C28_RestartHappens ==
    /\ RestartCountdownStarts
    /\ [][RestartStep]_vars

\* the game has restarted with no chair although it had started with one
C28_RestartedWithoutChairs ==
    /\ screen.mounted
    /\ screen.isActive
    /\ ~screen.gameOver
    /\ screen.detectedPersonCount = Null
    /\ screen.previousChairCount = 0
    /\ screen.selectedNumber = 0
    /\ screen.startedWith = 0
    /\ screen.countdown = Some(GameCountdownFrom)
    /\ screen.userActions = 2

\* on a second mount of the screen (GameAgainSpec), with previousChairCount
\* left at 2 by the game before, a game confirmed without a count has run with
\* 1 chair and has restarted with 2
C28_RestartedWithMoreChairs ==
    /\ screen.mounted
    /\ screen.isActive
    /\ ~screen.gameOver
    /\ screen.detectedPersonCount = Null
    /\ screen.previousChairCount = 2
    /\ screen.selectedNumber = 2
    /\ screen.startedWith = 2
    /\ screen.countdown = Some(GameCountdownFrom)
    /\ screen.userActions = MaxUserActions

-----------------------------------------------------------------------------
(* detectGameWinner without a camera or a model session *)

\* detectGameWinner runs and cameraRef.current or modelSession is missing
Unavailable ==
    /\ DetectGameWinnerStarts(0)
    /\ ~screen.cameraRef \/ ~screen.modelSession

\* what detectGameWinner does then: no call of detectWinner, and the restart
\* countdown scheduled
UnavailableStep ==
    Unavailable =>
      /\ screen'.tasks = screen.tasks
      /\ screen'.timeouts =
           (screen.timeouts (-) SetToBag({"detectGameWinner"}))
             (+) SetToBag({"startGameOverCountdown"})
      /\ screen.mounted => (~screen'.isDetectingWinner /\ screen'.gameOver)

\* the winner result is unset after it
ResultUnset == (screen.mounted /\ Unavailable) => screen'.winnerDetectionResult = Null

\* the winner result is what it was before it
ResultUntouched == Unavailable => screen'.winnerDetectionResult = screen.winnerDetectionResult

\* a game that is over does not stay over, whatever the user does
NeverStuckInGameOver ==
    (screen.mounted /\ screen.gameOver) ~> (~screen.mounted \/ ~screen.gameOver)

\* detectGameWinner has found the camera or the model session missing, and the
\* restart countdown has not started yet
WinnerDetectionSkipped ==
    /\ screen.mounted
    /\ screen.gameOver
    /\ ~screen.cameraRef \/ ~screen.modelSession
    /\ DetectionsScheduled(screen) = 0
    /\ ~screen.isDetectingWinner
    /\ ~BagIn(Task("detectGameWinner", "detectWinner", Null), screen.tasks)
    /\ screen.gameOverCountdown = Null

\* what follows: the restart countdown starts unless the user cancels or
\* leaves, and a game that is over never stays over
RestartFollows ==
    /\ WinnerDetectionSkipped
         ~> \/ ~screen.mounted
            \/ ~screen.gameOver
            \/ screen.gameOverCountdown = Some(GameOverCountdownFrom)
    /\ NeverStuckInGameOver

\* C29: when cameraRef.current or modelSession is missing as detectGameWinner
\* runs, it starts no capture and no inference (no call of detectWinner), does
\* not mark winner detection as running, the winner result is unset, and the
\* restart countdown is scheduled; from there the restart countdown starts
\* unless the user cancels or leaves, and a game that is over never stays over
C29_NoCameraNoDetection ==
    /\ [][UnavailableStep /\ ResultUnset]_vars
    /\ RestartFollows

\* C29, with the winner result left as it was: detectGameWinner stores no
\* result on this path and clears none
C29_NoDetectionAndRestart ==
    /\ [][UnavailableStep /\ ResultUntouched]_vars
    /\ RestartFollows

\* detectGameWinner has found the camera missing at the end of a restarted
\* game: the winner result of the game before is still set
C29_EarlierResultKept ==
    /\ WinnerDetectionSkipped
    /\ ~screen.cameraRef
    /\ screen.winnerDetectionResult # Null
    /\ BagIn("startGameOverCountdown", screen.timeouts)

\* detectGameWinner has found the camera missing at the end of the first game:
\* no winner result is set and the restart countdown is scheduled
C29_Witness ==
    /\ WinnerDetectionSkipped
    /\ ~screen.cameraRef
    /\ screen.winnerDetectionResult = Null
    /\ BagIn("startGameOverCountdown", screen.timeouts)

-----------------------------------------------------------------------------
(* calculateIoU called on its own *)

\* corners are drawn from 0..MaxCorner
MaxCorner == 2

\* boxes given by corners, those of no width or no height included
CornerBoxes ==
    { box \in [x1 : 0..MaxCorner, y1 : 0..MaxCorner,
               x2 : 0..MaxCorner, y2 : 0..MaxCorner] :
        box.x1 <= box.x2 /\ box.y1 <= box.y2 }

NoRatio == <<>>

IoUInit ==
    /\ NotRunning
    /\ screen = NoScreen
    /\ \E box1 \in CornerBoxes : \E box2 \in CornerBoxes :
         call = [fn |-> "calculateIoU", box1 |-> box1, box2 |-> box2,
                 runs |-> 0, out |-> NoRatio, swapped |-> NoRatio]

\* out = calculateIoU(box1, box2)
CalculateIoU ==
    /\ call.fn = "calculateIoU"
    /\ call.runs = 0
    /\ call' = [call EXCEPT !.runs = 1, !.out = calculateIoU(call.box1, call.box2)]
    /\ UNCHANGED <<DetectWinnerVars, screen>>

\* swapped = calculateIoU(box2, box1)
CalculateIoUSwapped ==
    /\ call.fn = "calculateIoU"
    /\ call.runs = 1
    /\ call' = [call EXCEPT !.runs = 2, !.swapped = calculateIoU(call.box2, call.box1)]
    /\ UNCHANGED <<DetectWinnerVars, screen>>

IoUNext == CalculateIoU \/ CalculateIoUSwapped

IoUSpec == IoUInit /\ [][IoUNext]_vars

IoUCalculated == call.fn = "calculateIoU" /\ call.runs = 2

\* the unit squares a box covers
UnitSquares(box) ==
    { <<x, y>> \in (0..MaxCorner) \X (0..MaxCorner) :
        /\ box.x1 <= x /\ x + 1 <= box.x2
        /\ box.y1 <= y /\ y + 1 <= box.y2 }

\* a ratio <<n, d>> is a number in [0, 1]; 0/0 is NaN and is not
InUnitInterval(ratio) == ratio[2] > 0 /\ 0 <= ratio[1] /\ ratio[1] <= ratio[2]

\* a ratio <<n, d>> is the number 0; 0/0 is NaN and is not
IsZero(ratio) == ratio[2] # 0 /\ ratio[1] = 0

\* the area both boxes cover and the area either covers
IntersectionArea == Cardinality(UnitSquares(call.box1) \cap UnitSquares(call.box2))
UnionArea == Cardinality(UnitSquares(call.box1) \cup UnitSquares(call.box2))

\* with a union that has an area, the value is intersection over union and
\* lies in [0, 1]; the value is the same with the arguments swapped
IoUOfAreas ==
    /\ call.swapped = call.out
    /\ UnionArea # 0 =>
         /\ RatioEQ(call.out, <<IntersectionArea, UnionArea>>)
         /\ InUnitInterval(call.out)

\* C30: calculateIoU returns the area of the intersection of its two boxes over
\* the area of their union, the same value with its arguments swapped, a value
\* in [0, 1], and 0 when the area of the union is 0
C30_IoU ==
    IoUCalculated =>
      /\ IoUOfAreas
      /\ UnionArea = 0 => IsZero(call.out)

\* C30 for a union that has an area: intersection over union, symmetric, in
\* [0, 1]; with a union of area 0 the value is 0/0, for either order of the
\* arguments
C30_IoUWithUnion ==
    IoUCalculated =>
      /\ IoUOfAreas
      /\ UnionArea = 0 => (call.out = <<0, 0>> /\ call.swapped = <<0, 0>>)

\* calculateIoU has returned 0/0 for two boxes of no area
C30_ZeroUnion ==
    /\ IoUCalculated
    /\ UnitSquares(call.box1) = {} /\ UnitSquares(call.box2) = {}
    /\ call.box1 # call.box2
    /\ call.out = <<0, 0>>

\* calculateIoU has returned a value strictly between 0 and 1
C30_PartialOverlap ==
    /\ IoUCalculated
    /\ 0 < call.out[1] /\ call.out[1] < call.out[2]

-----------------------------------------------------------------------------
(* What one grid cell contributes, and the two decoders side by side *)

\* the first class that holds the largest of the 80 scores of a cell
TopClassOf ==
    [cell \in DecodeCells |->
        CHOOSE c \in 0..(NumClasses - 1) :
            /\ \A d \in 0..(NumClasses - 1) : ScoreOf(cell, d) <= ScoreOf(cell, c)
            /\ \A d \in 0..(c - 1) : ScoreOf(cell, d) < ScoreOf(cell, c)]

TopClass(cell) == TopClassOf[cell]

\* the raw detections of class c of a tensor that holds the cell alone
AloneOfClassOf ==
    [dims \in {d \in DecodeShapes : ~ShapeMismatch(d)}, cell \in DecodeCells,
     c \in {PersonClass, ChairClass} |-> RawOfClass(Tensor(dims, <<cell>>), c)]

AloneOfClass(dims, cell, c) == AloneOfClassOf[dims, cell, c]

\* the raw detections of class c the cells contribute one by one, in order
RECURSIVE CellByCell(_, _, _)
CellByCell(dims, cells, c) ==
    IF cells = <<>> THEN <<>>
    ELSE AloneOfClass(dims, Head(cells), c) \o CellByCell(dims, Tail(cells), c)

\* C31: the raw persons and the raw chairs are what the grid cells contribute
\* one by one; a cell contributes at most one raw detection, to the persons
\* only if the first class with its largest score is person (0), to the chairs
\* only if that class is chair (56), and nothing if it is any other class,
\* whatever its person and chair scores; the persons and chairs returned are
\* taken from these
C31_OneClassPerCell ==
    (call.fn = "decode" /\ call.bothDone /\ ~ShapeMismatch(call.dims)) =>
        /\ call.rawPersons = CellByCell(call.dims, call.cells, PersonClass)
        /\ call.rawChairs = CellByCell(call.dims, call.cells, ChairClass)
        /\ \A j \in 1..Len(call.cells) :
             LET cell == call.cells[j]
                 asPerson == Len(AloneOfClass(call.dims, cell, PersonClass))
                 asChair == Len(AloneOfClass(call.dims, cell, ChairClass))
             IN  /\ asPerson + asChair <= 1
                 /\ asPerson = 1 => TopClass(cell) = PersonClass
                 /\ asChair = 1 => TopClass(cell) = ChairClass
                 /\ TopClass(cell) \notin {PersonClass, ChairClass} => asPerson + asChair = 0
        /\ Range(call.both.persons) \subseteq Range(StripCorners(call.rawPersons))
        /\ Range(call.both.chairs) \subseteq Range(StripCorners(call.rawChairs))
        /\ Len(call.both.persons) + Len(call.both.chairs) <= Len(call.cells)

\* a tensor has been decoded in which one cell has a person score of 0.8 under
\* a higher score of another class, and one has equal person and chair scores
\* of 0.85: the second alone is a detection, and it is a person
C31_Witness ==
    /\ call.fn = "decode" /\ call.bothDone
    /\ call.dims = ReferenceShape
    /\ call.cells = <<PersonOrDogCell, PersonChairTieCell>>
    /\ ScoreOf(PersonOrDogCell, PersonClass) >= threshold
    /\ Len(call.rawPersons) = 1
    /\ call.rawPersons[1].bbox = PersonChairTieCell.bbox
    /\ call.rawChairs = <<>>

\* The two decoders are translated one by one, each from its own loop over the
\* grid cells: PersonsFirstPass and BestClassFrom for
\* processOutputTensorToCountPersons, ScanCells and ArgMax for
\* processOutputTensorToCountPersonsAndChairs.

\* C37: for every output tensor the persons and personCount that
\* processOutputTensorToCountPersonsAndChairs returns are the detections and
\* personCount that processOutputTensorToCountPersons returns, boxes,
\* confidences and order included; in both results every count is the length
\* of its list
C37_DecodersAgree ==
    (call.fn = "decode" /\ call.personsDone /\ call.bothDone) =>
        /\ call.both.persons = call.persons.detections
        /\ call.both.personCount = call.persons.personCount
        /\ call.persons.personCount = Len(call.persons.detections)
        /\ call.both.personCount = Len(call.both.persons)
        /\ call.both.chairCount = Len(call.both.chairs)

\* both decoders have run on a tensor with two persons that are kept, next to
\* a cell whose person score is beaten by another class
C37_Witness ==
    /\ call.fn = "decode" /\ call.personsDone /\ call.bothDone
    /\ call.dims = ReferenceShape
    /\ call.cells = <<PersonCell, PersonOrDogCell, BarelyPersonCell>>
    /\ call.persons.personCount = 2
    /\ call.both.persons = <<[confidence |-> 90, bbox |-> PersonCell.bbox],
                             [confidence |-> 71, bbox |-> BarelyPersonCell.bbox]>>

-----------------------------------------------------------------------------
(* The random stop of the music *)

\* an awaited call is pending after which the random stop is scheduled or the
\* music paused
StopUnderWay ==
    \/ BagIn(Task("playSound", "playAsync", Null), screen.tasks)
    \/ BagIn(Task("warning", "playAsync", Null), screen.tasks)
    \/ \E t \in BagToSet(screen.tasks) :
         t.fn = "randomStop" /\ t.pc = "getStatusAsync"

\* the music of a running game is playing
MusicOfGamePlaying ==
    /\ screen.mounted
    /\ screen.isActive
    /\ ~screen.gameOver
    /\ screen.soundRef = "playing"

\* a settle countdown is running
SettleCountdownRunning ==
    /\ screen.mounted
    /\ \E iv \in screen.intervals :
         iv.kind = "settle" /\ screen.countdownIntervalRef = Some(iv.id)

\* C32: while the music of a running game plays, a random stop is pending (its
\* timer, or the awaited call after which it is scheduled or carried out), and
\* the music is eventually paused with a settle countdown running, unless the
\* user cancels or leaves first; whichever way the music started: playSound,
\* the resume after the warning, or changeSong
C32_MusicIsStopped ==
    /\ [](MusicOfGamePlaying => (BagIn("randomStop", screen.timeouts) \/ StopUnderWay))
    /\ MusicOfGamePlaying
         ~> \/ ~screen.mounted
            \/ ~screen.isActive
            \/ SettleCountdownRunning /\ screen.soundRef # "playing"

\* C32 for the games in which the user never changes the song
C32_WithoutSongChange ==
    \/ <>(screen.mounted /\ BagIn(Task("changeSong", "createAsync", Null), screen.tasks))
    \/ C32_MusicIsStopped

\* the music of a running game plays with nothing left that would stop it: no
\* timer, no interval, no awaited call
C32_MusicNeverStops ==
    /\ MusicOfGamePlaying
    /\ screen.timeouts = EmptyBag
    /\ screen.rawTimeouts = EmptyBag
    /\ screen.intervals = {}
    /\ screen.tasks = EmptyBag

-----------------------------------------------------------------------------
(* The confirmation of the detected person count *)

\* the user confirms a count of less than 2
TooFewConfirmed ==
    /\ PressYes
    /\ screen.detectedPersonCount # Null
    /\ screen.detectedPersonCount[1] < 2

\* the user confirms a count of at least 2
EnoughConfirmed ==
    /\ PressYes
    /\ screen.detectedPersonCount # Null
    /\ screen.detectedPersonCount[1] >= 2

\* a game countdown is running
GameCountdownRunning ==
    \E iv \in screen.intervals : iv.kind = "game"

C33_Witness ==
    /\ screen.mounted
    /\ screen.detectedPersonCount = Some(1)
    /\ screen.showNotEnoughPlayersError
    /\ screen.isActive
    /\ screen.rawTimeouts # EmptyBag
    /\ screen.intervals = {}

\* the 3 seconds of the error are over: the game is inactive and nothing is
\* scheduled
C33_WitnessReset ==
    /\ screen.mounted
    /\ screen.detectedPersonCount = Some(1)
    /\ ~screen.showNotEnoughPlayersError
    /\ ~screen.isActive
    /\ screen.rawTimeouts = EmptyBag
    /\ screen.timeouts = EmptyBag
    /\ screen.userActions = 2

C33_WitnessEnough ==
    /\ screen.mounted
    /\ screen.detectedPersonCount = Some(3)
    /\ screen.selectedNumber = 2
    /\ screen.previousChairCount = 2
    /\ GameCountdownRunning

-----------------------------------------------------------------------------
(* After the user has cancelled a game *)

\* the user has cancelled with the start/cancel button and has not pressed it
\* again since
CancelledAndNotStarted == screen.mounted /\ screen.cancelled

\* C34: from the cancel of an active game until the next press of start the
\* game is idle, whatever awaited call was pending at the cancel: it is not
\* active and not over, no music plays, no timer is pending, no countdown runs
\* or is shown, and no winner result is stored
C34_IdleAfterCancel ==
    CancelledAndNotStarted =>
        /\ ~screen.isActive
        /\ ~screen.gameOver
        /\ screen.soundRef # "playing"
        /\ screen.timeouts = EmptyBag
        /\ screen.intervals = {}
        /\ screen.countdown = Null
        /\ screen.gameOverCountdown = Null
        /\ screen.winnerDetectionResult = Null
        /\ ~screen.isDetectingWinner

\* C34 at the moment of the cancel: the step of the cancel itself leaves the
\* game idle
C34_IdleAtCancel ==
    [][(PressStartCancel /\ screen.isActive) =>
         /\ ~screen'.isActive
         /\ ~screen'.gameOver
         /\ screen'.soundRef = "none"
         /\ screen'.timeouts = EmptyBag
         /\ screen'.intervals = {}
         /\ screen'.countdown = Null
         /\ screen'.gameOverCountdown = Null
         /\ screen'.winnerDetectionResult = Null
         /\ ~screen'.isDetectingWinner]_vars

\* after a cancel during winner detection, detectWinner has returned: its
\* result is stored and the restart countdown is scheduled
C34_ResultAfterCancel ==
    /\ CancelledAndNotStarted
    /\ screen.winnerDetectionResult # Null
    /\ BagIn("startGameOverCountdown", screen.timeouts)

\* after a cancel during winner detection the game has restarted by itself
C34_RestartAfterCancel ==
    /\ CancelledAndNotStarted
    /\ screen.isActive
    /\ GameCountdownRunning

\* after a cancel while playSound was creating the sound, the music plays and
\* a random stop is scheduled
C34_MusicAfterCancel ==
    /\ CancelledAndNotStarted
    /\ ~screen.isActive
    /\ screen.soundRef = "playing"
    /\ BagIn("randomStop", screen.timeouts)

\* after a cancel while randomStop was pausing the music, a settle countdown runs
C34_SettleAfterCancel ==
    /\ CancelledAndNotStarted
    /\ ~screen.isActive
    /\ SettleCountdownRunning


\* ---------------------------------------------------------------------------
\* A cancelled person detection
\* ---------------------------------------------------------------------------

\* a run of startPersonDetection that the user cancelled comes to its end
CancelledRunEnds ==
    /\ screen.mounted
    /\ screen'.mounted
    /\ \E data \in {Null} \cup { Some(n) : n \in PersonCounts } :
         LET t == Task(CancelledRun, "delay", data)
         IN  /\ BagIn(t, screen.tasks)
             /\ CopiesIn(t, screen'.tasks) < CopiesIn(t, screen.tasks)

\* the step neither sets the detected person count nor opens the prompt
NothingPublished ==
    /\ screen'.detectedPersonCount = screen.detectedPersonCount
    /\ screen'.showPersonDetectionPrompt = screen.showPersonDetectionPrompt
    /\ screen'.published = screen.published

\* C35: a person-detection run that the user cancelled never sets the detected
\* person count and never opens the confirmation prompt, also when a new
\* detection was started before it ended, and at most one run publishes a
\* result for one start of the detection
C35_CancelledRunNeverPublishes ==
    /\ [][CancelledRunEnds => NothingPublished]_vars
    /\ [](screen.mounted => screen.published <= 1)

\* what holds of the code: a cancelled run publishes nothing as long as the
\* game has not been started again
C35_SilentUntilNextStart ==
    [][CancelledRunEnds /\ ~screen.isActive => NothingPublished]_vars

\* a cancelled run has opened the prompt while the run of the second start is
\* in flight
C35_CancelledRunPublished ==
    /\ screen.mounted
    /\ screen.showPersonDetectionPrompt
    /\ screen.published = 1
    /\ screen.userActions = 3
    /\ \E t \in BagToSet(screen.tasks) : t.fn = "startPersonDetection"
    /\ \A t \in BagToSet(screen.tasks) : t.fn # CancelledRun

\* two runs have published after one start
C35_TwoRunsPublished ==
    /\ screen.mounted
    /\ screen.published = 2


\* ---------------------------------------------------------------------------
\* The countdown intervals
\* ---------------------------------------------------------------------------

\* the count a countdown of this kind starts from
StartsFrom(kind) ==
    CASE kind = "game" -> GameCountdownFrom
      [] kind = "settle" -> SettleCountdownFrom
      [] OTHER -> GameOverCountdownFrom

\* the intervals that run, each with the component that started it (0: the
\* component in front)
IntervalsRunning ==
    { <<0, iv>> : iv \in screen.intervals }
      \cup UNION { { <<i, iv>> : iv \in screen.earlier[i].intervals } :
                      i \in 1..Len(screen.earlier) }

\* a component has at most one interval, the one its countdownIntervalRef names
OneIntervalOf(c) ==
    /\ Cardinality(c.intervals) <= 1
    /\ \A iv \in c.intervals : c.countdownIntervalRef = Some(iv.id)
    /\ c.countdownIntervalRef # Null =>
           \E iv \in c.intervals : iv.id = c.countdownIntervalRef[1]

\* at most one interval runs, and it is the one countdownIntervalRef names
OneIntervalAtMost ==
    /\ Cardinality(IntervalsRunning) <= 1
    /\ OneIntervalOf(screen)

\* every component has at most one interval, the one its ref names
OneIntervalEach ==
    /\ OneIntervalOf(screen)
    /\ \A i \in 1..Len(screen.earlier) : OneIntervalOf(screen.earlier[i])

\* a step that starts a countdown leaves its interval as the only one
StartLeavesOne ==
    \A iv \in screen'.intervals :
        iv \notin screen.intervals /\ iv.count = StartsFrom(iv.kind) =>
            /\ screen'.intervals = {iv}
            /\ screen'.countdownIntervalRef = Some(iv.id)

\* the tick that takes a countdown below zero clears its interval: none of
\* its kind is left, and what is left was started by the step
EndClearsItself ==
    /\ GameCountdownEnds(0) => screen'.intervals = {}
    /\ SettleCountdownEnds(0) => screen'.intervals = {}
    /\ GameOverCountdownEnds(0) =>
          /\ \A iv \in screen'.intervals : iv.kind # "gameOver"
          /\ Cardinality(screen'.intervals) <= 1

\* handleBack gets to its reset: at the press when there is no sound to
\* stop, else once its unloadAsync has resolved
BackResets ==
    \/ PressBack /\ screen.soundRef = "none"
    \/ BackUnloaded(0)

\* the screen is left: by router.replace of handleBack or by losing the focus
ScreenLeft ==
    screen.mounted /\ (BackLocked(0) \/ ScreenLosesFocus)

\* a cancel and the back button leave no interval running
CancelAndBackLeaveNone ==
    /\ PressStartCancel /\ screen.isActive =>
          screen'.intervals = {} /\ screen'.countdownIntervalRef = Null
    /\ BackResets =>
          screen'.intervals = {} /\ screen'.countdownIntervalRef = Null
    /\ ScreenLeft =>
          /\ ~screen'.mounted
          /\ screen'.intervals = {} /\ screen'.countdownIntervalRef = Null

\* C36: at most one countdown interval (game start, settle, game-over restart)
\* runs at any time: a countdown that starts leaves no other interval, a
\* countdown that goes below zero clears itself, and the cancel and the back
\* button leave none running
C36_OneCountdownInterval ==
    /\ []OneIntervalAtMost
    /\ [][StartLeavesOne /\ EndClearsItself /\ CancelAndBackLeaveNone]_vars

\* C36 of each component on its own: a component of the screen has at most
\* one countdown interval at any time, the one its countdownIntervalRef
\* names; a countdown that starts leaves no other interval of the component,
\* a countdown that goes below zero clears itself, and the cancel and the
\* back button leave none running as they are handled
C36_OneIntervalOfEachComponent ==
    /\ []OneIntervalEach
    /\ [][StartLeavesOne /\ EndClearsItself /\ CancelAndBackLeaveNone]_vars

\* two countdown intervals run at once: the game countdown of the screen that
\* is mounted, and a countdown of the game that was left before, started by
\* what that game had in flight
C36_TwoIntervals ==
    /\ screen.mounted
    /\ GameCountdownRunning
    /\ Len(screen.earlier) = 1
    /\ screen.earlier[1].intervals # {}

\* the game countdown has cleared itself, and the settle countdown that was
\* started later is the one interval, named by the ref
C36_Witness ==
    /\ screen.mounted
    /\ screen.isActive
    /\ screen.countdown = Some(SettleCountdownFrom - 1)
    /\ \E iv \in screen.intervals :
          /\ iv.kind = "settle"
          /\ iv.count = SettleCountdownFrom - 1
          /\ screen.intervals = {iv}
          /\ screen.countdownIntervalRef = Some(iv.id)

\* a cancel during a countdown has left no interval
C36_WitnessCancel ==
    /\ screen.mounted
    /\ screen.cancelled
    /\ ~screen.isActive
    /\ screen.intervals = {}
    /\ screen.countdownIntervalRef = Null
    /\ screen.startedWith = 1
    /\ screen.userActions = 3


\* ---------------------------------------------------------------------------
\* The winner result in the game-over overlay
\* ---------------------------------------------------------------------------

\* the game-over overlay shows the winner result: the screen is rendered
\* (neither the intro video nor the permission view replaces it) and
\* gameOver && !isDetectingWinner && winnerDetectionResult
OverlayShowsResult ==
    /\ screen.mounted
    /\ screen.cameraRef
    /\ screen.gameOver
    /\ ~screen.isDetectingWinner
    /\ screen.winnerDetectionResult # Null

\* C38: a winner result that the game-over overlay displays was stored by the
\* winner detection of the round that has just ended, never by the detection
\* of a round before the latest start of the game
C38_ResultOfThisRound ==
    OverlayShowsResult => ~screen.staleResult

\* what holds of the code: once the winner detection of the round has returned
\* the overlay shows its result until the game is started again
C38_ResultOfDetection ==
    [][DetectWinnerReturns(0) /\ screen'.gameOver /\ screen'.mounted /\ screen'.cameraRef
          => OverlayShowsResult' /\ ~screen'.staleResult]_vars

\* after a restart the game is over again and the overlay shows the result of
\* the round before, while the winner detection has not yet begun
C38_EarlierResultShown ==
    /\ OverlayShowsResult
    /\ screen.staleResult
    /\ BagIn("detectGameWinner", screen.timeouts)

\* the camera was away as detectGameWinner ran in the second round: the
\* result of the round before is in the overlay while the restart countdown
\* runs
C38_EarlierResultStays ==
    /\ OverlayShowsResult
    /\ screen.staleResult
    /\ screen.gameOverCountdown # Null

============================================================================
